---- MODULE Spec2Model ----
(***************************************************************************)
(* Byte-level model of memory_allocator.h: the statistics record, the      *)
(* thread-local small-block cache, the boundary-tag arena, the arena       *)
(* manager with its optional reclaimer, and the per-thread facade.         *)
(*                                                                         *)
(* Memory is a sparse map from byte addresses to byte values; an address   *)
(* that is not in the map holds 0 (every region the allocator obtains is   *)
(* memset to 0 before use).  Structures are laid out as g++ lays them out  *)
(* on LP64 little-endian targets: size_t and pointers take 8 bytes,         *)
(* alignof(std::max_align_t) = 16.                                         *)
(*                                                                         *)
(* size_t counters that the code can drive below zero are kept as signed   *)
(* integers: a negative value v stands for the wrapped value 2^64 + v.     *)
(***************************************************************************)
EXTENDS Integers, Naturals, Sequences, FiniteSets, TLC

(***************************************************************************)
(* Structure layout                                                        *)
(***************************************************************************)
SMALL_BIN_COUNT == 4
SMALL_BIN_SIZE == <<32, 64, 128, 256>>
SmallHeaderSize == 16      \* sizeof(SmallBlockHeader)
SmallOffUserSize == 8      \* offsetof(SmallBlockHeader, userSize)
SmallOffNext == 16         \* offsetof(SmallFreeBlock, next)
HeaderSize == 32           \* sizeof(Arena::BlockHeader)
OffTotalSize == 8          \* offsetof(BlockHeader, totalSize)
OffUserSize == 16          \* offsetof(BlockHeader, userSize)
OffIsFree == 24            \* offsetof(BlockHeader, isFree)
FooterSize == 24           \* sizeof(Arena::BlockFooter)
FootOffTotalSize == 8      \* offsetof(BlockFooter, totalSize)
FootOffIsFree == 16        \* offsetof(BlockFooter, isFree)
OffNext == 32              \* offsetof(FreeBlock, next)
FreeBlockSize == 40        \* sizeof(Arena::FreeBlock)
LinkSize == 8              \* sizeof(FreeBlock*), the member FreeBlock::next
MaxAlign == 16             \* alignof(std::max_align_t)
SmallLimit == 256          \* the facade's small/large threshold
MarkerBack == 4            \* the facade reads the 4 bytes before the pointer
\* 0xCAFEBABE as the four bytes a little-endian store leaves in memory
MAGIC == <<190, 186, 254, 202>>
\* the overhead computed without the footer
OverheadHeaderOnly == HeaderSize

Overhead == HeaderSize + FooterSize

(***************************************************************************)
(* Bounds of the model                                                     *)
(***************************************************************************)
NumThreads == 2
MaxCalls == 3              \* allocate calls made through the facade, all threads together
MaxFrees == 3              \* deallocate calls counted by the facade when callers free twice
MaxDirectCalls == 4         \* allocate calls on the arena used directly
MaxDirectFrees == 5        \* deallocate calls on the arena used directly
MaxSharedCalls == 3        \* allocate calls on the arenas that two threads share
MaxCacheCalls == 3         \* allocateSmall calls on the cache used directly
MaxHandleCalls == 3        \* allocate calls through the two allocator objects
MaxPoolCalls == 4          \* allocate calls on the ThreadsafeCoalescingAllocator
PoolSize == 256            \* bytes in the pool of the ThreadsafeCoalescingAllocator
MaxWalk == 12              \* list nodes a traversal may visit before it counts as a hang
Threads == 1..NumThreads
ArenaIds == 1..NumThreads  \* one arena per thread that binds
\* request sizes offered to the facade and to the arena used directly
Sizes == {20, 264, 272}
ReclaimSizes == {20, 264}
ZeroSizes == {0, 1, 272}
RaceSmallSizes == {20}
RaceLargeSizes == {264}
SharedSizes == {24, 40}
\* request sizes offered to the ThreadsafeCoalescingAllocator: 300 is more
\* than its pool holds
PoolSizes == {24, 40, 300}
\* the two allocator objects of one program, and the sizes requested of them
Handles == {1, 2}
HandleSizes == {20, 264}
\* request sizes offered to the small cache used directly: both sides of
\* every bin boundary
CacheSizes == {1, 32, 33, 64, 65, 128, 129, 256, 257, 300}
RouteSizes == {20, 256, 257}
DirectSizes == {1, 24, 40}
DirectAligns == {MaxAlign}
DefaultArenaSize == 1024   \* the facade's defaultArenaSize_ argument
DirectArenaSize == 320     \* the size of the arena used directly

\* Values a 64-bit load can deliver are kept exact below 2^24 and saturate
\* at Wide above it; every size and address of the model is below 2^24.
Wide == 16777216
\* operator new returns storage aligned for max_align_t; the regions and the
\* small-cache chunks it hands out are placed apart from one another
RegionStride == MaxAlign * 4096
ChunkOrigin == MaxAlign * 65536
ChunkStride == MaxAlign * 32

(***************************************************************************)
(* Byte memory                                                             *)
(***************************************************************************)
Rd(m, a) == IF a \in DOMAIN m THEN m[a] ELSE 0

\* store the bytes bs (a sequence) at address a
Store(m, a, bs) ==
    LET rng == a..(a + Len(bs) - 1)
        dom == (DOMAIN m \ rng) \cup {x \in rng : bs[x - a + 1] # 0}
    IN [x \in dom |-> IF x \in rng THEN bs[x - a + 1] ELSE m[x]]

\* the eight bytes of a size_t or pointer value 0 <= v < 2^31
Bytes64(v) ==
    << v % 256, (v \div 256) % 256, (v \div 65536) % 256, (v \div 16777216) % 256, 0, 0, 0, 0 >>

RdU64(m, a) ==
    IF \E i \in 3..7 : Rd(m, a + i) # 0 THEN Wide
    ELSE Rd(m, a) + 256 * Rd(m, a + 1) + 65536 * Rd(m, a + 2)

WrU64(m, a, v) == Store(m, a, Bytes64(v))
WrMagic(m, a) == Store(m, a, MAGIC)
WrBool(m, a, b) == Store(m, a, << IF b THEN 1 ELSE 0 >>)
IsMagic(m, a) == \A i \in 1..4 : Rd(m, a + i - 1) = MAGIC[i]
RdBool(m, a) == Rd(m, a) # 0

\* (int) of a size_t: the low four bytes; in range of the bin table or not
RdBinIndex(m, a) ==
    IF Rd(m, a + 1) = 0 /\ Rd(m, a + 2) = 0 /\ Rd(m, a + 3) = 0 /\ Rd(m, a) < SMALL_BIN_COUNT
    THEN Rd(m, a) ELSE -1

AlignUp(x, al) == ((x + al - 1) \div al) * al

(***************************************************************************)
(* Arena: boundary-tag heap over one region                                *)
(***************************************************************************)
\* released counts the ::operator delete calls made on the arena's region
NoArena == [state |-> "none", memory_ |-> 0, arenaSize_ |-> 0, usedBytes_ |-> 0,
            firstFree_ |-> 0, released |-> 0]

getFooter(m, hdr) == hdr + RdU64(m, hdr + OffTotalSize) - FooterSize

\* header and footer stores shared by the constructor, the split and the merges
WrFooter(m, foot, total, free) ==
    WrBool(WrU64(WrMagic(m, foot), foot + FootOffTotalSize, total), foot + FootOffIsFree, free)

\* Arena::Arena: one free block over the zeroed region
ArenaCtor(m, base, arenaSize) ==
    LET m1 == WrMagic(m, base)
        m2 == WrU64(m1, base + OffTotalSize, arenaSize)
        m3 == WrU64(m2, base + OffUserSize, 0)
        m4 == WrBool(m3, base + OffIsFree, TRUE)
        m5 == WrU64(m4, base + OffNext, 0)
        m6 == WrFooter(m5, getFooter(m5, base), arenaSize, TRUE)
    IN [mem |-> m6,
        ar |-> [state |-> "live", memory_ |-> base, arenaSize_ |-> arenaSize,
                usedBytes_ |-> 0, firstFree_ |-> base, released |-> 0]]

\* std::align leaving the pointer where it is
StdAlignNoPadding(alignment, size, ptr, space) ==
    IF space < size THEN -1 ELSE 0

\* std::align(alignment, size, ptr, space): the padding it inserts, or -1
StdAlign(alignment, size, ptr, space) ==
    IF space < size THEN -1
    ELSE LET diff == AlignUp(ptr, alignment) - ptr
         IN IF diff > space - size THEN -1 ELSE diff

\* the loop passing over every block that has no room to spare for a FreeBlock
RECURSIVE FindFitNeedsSpare(_, _, _, _, _, _)
FindFitNeedsSpare(m, prev, cur, reqSize, alignment, fuel) ==
    IF cur = 0 THEN [found |-> FALSE, hang |-> FALSE]
    ELSE IF fuel = 0 THEN [found |-> FALSE, hang |-> TRUE]
    ELSE LET total == RdU64(m, cur + OffTotalSize)
             padding == IF total >= Overhead
                        THEN StdAlign(alignment, reqSize, cur + HeaderSize, total - Overhead)
                        ELSE -1
             fits == /\ RdBool(m, cur + OffIsFree)
                     /\ total >= reqSize + Overhead + FreeBlockSize
                     /\ padding >= 0
                     /\ total >= Overhead + padding + reqSize
         IN IF fits THEN [found |-> TRUE, hang |-> FALSE, prev |-> prev, cur |-> cur,
                          padding |-> padding]
            ELSE FindFitNeedsSpare(m, cur, RdU64(m, cur + OffNext), reqSize, alignment,
                                   fuel - 1)

\* the first-fit loop of Arena::allocate
RECURSIVE FindFit(_, _, _, _, _, _)
FindFit(m, prev, cur, reqSize, alignment, fuel) ==
    IF cur = 0 THEN [found |-> FALSE, hang |-> FALSE]
    ELSE IF fuel = 0 THEN [found |-> FALSE, hang |-> TRUE]
    ELSE LET total == RdU64(m, cur + OffTotalSize)
             padding == IF total >= Overhead
                        THEN StdAlign(alignment, reqSize, cur + HeaderSize, total - Overhead)
                        ELSE -1
             fits == /\ RdBool(m, cur + OffIsFree)
                     /\ total >= reqSize + Overhead
                     /\ padding >= 0
                     /\ total >= Overhead + padding + reqSize
         IN IF fits THEN [found |-> TRUE, hang |-> FALSE, prev |-> prev, cur |-> cur,
                          padding |-> padding]
            ELSE FindFit(m, cur, RdU64(m, cur + OffNext), reqSize, alignment, fuel - 1)

\* the split test asking room for a FreeBlock only
canSplitWithoutOverhead(leftover) == leftover >= FreeBlockSize

\* bool canSplit= leftover>= (sizeof(FreeBlock)+overhead);
canSplit(leftover) == leftover >= FreeBlockSize + Overhead

\* Arena::allocate without its statistics updates: the new memory, the new
\* arena fields, the pointer returned (0 for nullptr) and the bytes consumed
ArenaAllocate(m, ar, reqSize, alignment) ==
    LET f == FindFit(m, 0, ar.firstFree_, reqSize, alignment, MaxWalk)
    IN IF ~f.found
       THEN [mem |-> m, ar |-> ar, ptr |-> 0, needed |-> 0, hang |-> f.hang]
       ELSE
       LET cur == f.cur
           total == RdU64(m, cur + OffTotalSize)
           nxt == RdU64(m, cur + OffNext)
           needed0 == Overhead + f.padding + reqSize
           m1 == IF f.prev = 0 THEN m ELSE WrU64(m, f.prev + OffNext, nxt)
           ff1 == IF f.prev = 0 THEN nxt ELSE ar.firstFree_
           leftover == total - needed0
           lo == cur + needed0
           s1 == WrMagic(m1, lo)
           s2 == WrU64(s1, lo + OffTotalSize, leftover)
           s3 == WrU64(s2, lo + OffUserSize, 0)
           s4 == WrBool(s3, lo + OffIsFree, TRUE)
           s5 == WrU64(s4, lo + OffNext, ff1)
           s6 == WrFooter(s5, getFooter(s5, lo), leftover, TRUE)
           m2 == IF canSplit(leftover) THEN s6 ELSE m1
           ff2 == IF canSplit(leftover) THEN lo ELSE ff1
           needed == IF canSplit(leftover) THEN needed0 ELSE total
           a1 == WrBool(m2, cur + OffIsFree, FALSE)
           a2 == WrU64(a1, cur + OffUserSize, reqSize)
           a3 == WrU64(a2, cur + OffTotalSize, needed)
           a4 == WrFooter(a3, getFooter(a3, cur), needed, FALSE)
       IN [mem |-> a4,
           ar |-> [ar EXCEPT !.firstFree_ = ff2, !.usedBytes_ = @ + needed],
           ptr |-> cur + HeaderSize + f.padding, needed |-> needed, hang |-> FALSE]

\* Arena::removeFreeBlock: unlink header h from the list if it is on it
RECURSIVE RemoveWalk(_, _, _, _, _, _)
RemoveWalk(m, ff, prev, cur, h, fuel) ==
    IF cur = 0 THEN [mem |-> m, ff |-> ff, hang |-> FALSE]
    ELSE IF fuel = 0 THEN [mem |-> m, ff |-> ff, hang |-> TRUE]
    ELSE IF cur = h
         THEN LET nxt == RdU64(m, cur + OffNext)
                  m1 == IF prev = 0 THEN m ELSE WrU64(m, prev + OffNext, nxt)
              IN [mem |-> WrU64(m1, cur + OffNext, 0),
                  ff |-> IF prev = 0 THEN nxt ELSE ff, hang |-> FALSE]
         ELSE RemoveWalk(m, ff, cur, RdU64(m, cur + OffNext), h, fuel - 1)

\* removeFreeBlock leaving the list as it is
removeFreeBlockNone(m, ff, h) == [mem |-> m, ff |-> ff, hang |-> FALSE]

removeFreeBlock(m, ff, h) == RemoveWalk(m, ff, 0, ff, h, MaxWalk)

\* coalesceForward unlinking the next block without adding its size
coalesceForwardKeepSize(st, ar, blk) ==
    LET m == st.mem
        nxtAddr == blk + RdU64(m, blk + OffTotalSize)
    IN IF nxtAddr >= ar.memory_ + ar.arenaSize_ THEN st
       ELSE IF IsMagic(m, nxtAddr) /\ RdBool(m, nxtAddr + OffIsFree)
       THEN LET r == removeFreeBlock(m, st.ff, nxtAddr)
            IN [mem |-> r.mem, ff |-> r.ff, hang |-> st.hang \/ r.hang]
       ELSE st

\* Arena::coalesceForward on the block at blk; st = [mem, ff, hang]
coalesceForward(st, ar, blk) ==
    LET m == st.mem
        nxtAddr == blk + RdU64(m, blk + OffTotalSize)
    IN IF nxtAddr >= ar.memory_ + ar.arenaSize_ THEN st
       ELSE IF IsMagic(m, nxtAddr) /\ RdBool(m, nxtAddr + OffIsFree)
       THEN LET r == removeFreeBlock(m, st.ff, nxtAddr)
                sum == RdU64(r.mem, blk + OffTotalSize) + RdU64(r.mem, nxtAddr + OffTotalSize)
                m1 == WrU64(r.mem, blk + OffTotalSize, sum)
                m2 == WrFooter(m1, getFooter(m1, blk), sum, TRUE)
            IN [mem |-> m2, ff |-> r.ff, hang |-> st.hang \/ r.hang]
       ELSE st

\* Arena::coalesceBackward on the block at blk
coalesceBackward(st, ar, blk) ==
    LET m == st.mem
        footAddr == blk - FooterSize
    IN IF blk = ar.memory_ \/ footAddr < ar.memory_ THEN st
       ELSE IF IsMagic(m, footAddr) /\ RdBool(m, footAddr + FootOffIsFree)
       THEN LET prevSz == RdU64(m, footAddr + FootOffTotalSize)
                prevHdr == blk - prevSz
            IN IF IsMagic(m, prevHdr) /\ RdBool(m, prevHdr + OffIsFree)
               THEN LET r1 == removeFreeBlock(m, st.ff, blk)
                        r2 == removeFreeBlock(r1.mem, r1.ff, prevHdr)
                        sum == RdU64(r2.mem, prevHdr + OffTotalSize)
                               + RdU64(r2.mem, blk + OffTotalSize)
                        m1 == WrU64(r2.mem, prevHdr + OffTotalSize, sum)
                        m2 == WrFooter(m1, getFooter(m1, prevHdr), sum, TRUE)
                        m3 == WrU64(m2, prevHdr + OffNext, r2.ff)
                    IN [mem |-> m3, ff |-> prevHdr,
                        hang |-> st.hang \/ r1.hang \/ r2.hang]
               ELSE st
       ELSE st

\* Arena::deallocate leaving usedBytes_ as it is
ArenaDeallocateKeepUsed(m, ar, userPtr) ==
    LET hdr == userPtr - HeaderSize
    IN IF ~IsMagic(m, hdr) \/ RdBool(m, hdr + OffIsFree)
       THEN [mem |-> m, ar |-> ar, valid |-> FALSE, sz |-> 0, hang |-> FALSE]
       ELSE LET m1 == WrBool(m, hdr + OffIsFree, TRUE)
                sz == RdU64(m1, hdr + OffTotalSize)
                m2 == WrU64(m1, hdr + OffNext, ar.firstFree_)
                st0 == [mem |-> m2, ff |-> hdr, hang |-> FALSE]
                st1 == coalesceForward(st0, ar, hdr)
                st2 == coalesceBackward(st1, ar, hdr)
            IN [mem |-> st2.mem,
                ar |-> [ar EXCEPT !.firstFree_ = st2.ff],
                valid |-> TRUE, sz |-> sz, hang |-> st2.hang]

\* Arena::deallocate without its statistics updates: valid says whether the
\* header test passed, sz is the size taken off the counters
ArenaDeallocate(m, ar, userPtr) ==
    LET hdr == userPtr - HeaderSize
    IN IF ~IsMagic(m, hdr) \/ RdBool(m, hdr + OffIsFree)
       THEN [mem |-> m, ar |-> ar, valid |-> FALSE, sz |-> 0, hang |-> FALSE]
       ELSE LET m1 == WrBool(m, hdr + OffIsFree, TRUE)
                sz == RdU64(m1, hdr + OffTotalSize)
                m2 == WrU64(m1, hdr + OffNext, ar.firstFree_)
                st0 == [mem |-> m2, ff |-> hdr, hang |-> FALSE]
                st1 == coalesceForward(st0, ar, hdr)
                st2 == coalesceBackward(st1, ar, hdr)
            IN [mem |-> st2.mem,
                ar |-> [ar EXCEPT !.firstFree_ = st2.ff, !.usedBytes_ = @ - sz],
                valid |-> TRUE, sz |-> sz, hang |-> st2.hang]

(***************************************************************************)
(* State                                                                   *)
(***************************************************************************)
VARIABLES
    mem,                \* byte memory
    arena,              \* Arena objects: state, memory_, arenaSize_, usedBytes_, firstFree_
    mtx,                \* Arena::mtx_ of each arena: 0 or the thread holding it
    arenas_,            \* GlobalArenaManager::arenas_
    mgr,                \* GlobalArenaManager: enableReclamation_, stopThread_, mgrMutex_
    bg,                 \* bgThread_: where it is in bgLoop, and the sweep index i
    tld,                \* tld_ of each thread: arena (0 while tld_ is null) and freeList_
    stats,              \* FancyPerThreadAllocator::stats_
    pc,                 \* where each thread is inside allocate
    loc,                \* the locals c, p and the pointer about to be returned
    nchunks,            \* chunks ::operator new has handed to small caches
    enableReclamation,  \* the constructor argument of the facade
    live,               \* pointers handed to callers and not yet freed by them
    calls,              \* allocate calls made so far
    seen                \* history: the largest currentUsedBytes ever stored, last call

vars == << mem, arena, mtx, arenas_, mgr, bg, tld, stats, pc, loc, nchunks,
           enableReclamation, live, calls, seen >>

\* unsigned order on counters kept as signed integers
UGt(a, b) == IF (a < 0) = (b < 0) THEN a > b ELSE a < 0
UMax(a, b) == IF UGt(a, b) THEN a ELSE b

NoStats == [totalAllocCalls |-> 0, totalFreeCalls |-> 0,
            currentUsedBytes |-> 0, peakUsedBytes |-> 0]
NoLocals == [c |-> 0, p |-> 0, ret |-> 0, size |-> 0, id |-> 0]
NoTld == [arena |-> 0, freeList_ |-> [b \in 0..(SMALL_BIN_COUNT - 1) |-> 0]]
NoCall == [op |-> "none", t |-> 0, ptr |-> 0, size |-> 0, path |-> "none", dead |-> FALSE]

\* history kept for the properties: every store to currentUsedBytes is recorded
Seen(cur, call) == [maxCurrent |-> UMax(seen.maxCurrent, cur), call |-> call]
Call(op, t, ptr, size, path, dead) ==
    [op |-> op, t |-> t, ptr |-> ptr, size |-> size, path |-> path, dead |-> dead]

(***************************************************************************)
(* Small-block cache                                                       *)
(***************************************************************************)
\* ThreadLocalSmallCache::findBin, the loop from index i on
RECURSIVE FindBinFrom(_, _)
FindBinFrom(size, i) ==
    IF i >= SMALL_BIN_COUNT THEN -1
    ELSE IF size <= SMALL_BIN_SIZE[i + 1] THEN i
    ELSE FindBinFrom(size, i + 1)

findBin(size) == FindBinFrom(size, 0)

\* the chunk size counted without the header
SmallTotalNoHeader(bin) == SMALL_BIN_SIZE[bin + 1]

\* size_t totalSz = sizeof(SmallBlockHeader)+SMALL_BIN_SIZE[bin];
SmallTotal(bin) == SmallHeaderSize + SMALL_BIN_SIZE[bin + 1]

\* allocateSmall with the pop forgetting head = blk->next
allocateSmallKeepHead(m, fl, reqSize, chunk) ==
    LET bin == findBin(reqSize)
        head == fl[bin]
    IN IF head # 0
       THEN [mem |-> WrU64(m, head + SmallOffUserSize, reqSize),
             fl |-> fl,
             ptr |-> head + SmallHeaderSize, fresh |-> FALSE, totalSz |-> 0]
       ELSE [mem |-> WrU64(WrU64(m, chunk, bin), chunk + SmallOffUserSize, reqSize),
             fl |-> fl,
             ptr |-> chunk + SmallHeaderSize, fresh |-> TRUE, totalSz |-> SmallTotal(bin)]

\* ThreadLocalSmallCache::allocateSmall: nullptr for a size that has no bin,
\* else a pop (fresh = FALSE, no statistics) or a new chunk at address chunk
allocateSmall(m, fl, reqSize, chunk) ==
    LET bin == findBin(reqSize)
        head == fl[bin]
    IN IF bin < 0
       THEN [mem |-> m, fl |-> fl, ptr |-> 0, fresh |-> FALSE, totalSz |-> 0]
       ELSE IF head # 0
       THEN [mem |-> WrU64(m, head + SmallOffUserSize, reqSize),
             fl |-> [fl EXCEPT ![bin] = RdU64(m, head + SmallOffNext)],
             ptr |-> head + SmallHeaderSize, fresh |-> FALSE, totalSz |-> 0]
       ELSE [mem |-> WrU64(WrU64(m, chunk, bin), chunk + SmallOffUserSize, reqSize),
             fl |-> fl,
             ptr |-> chunk + SmallHeaderSize, fresh |-> TRUE, totalSz |-> SmallTotal(bin)]

\* freeSmall with the push forgetting fb->next = freeList_[bin]
freeSmallDropRest(m, fl, userPtr) ==
    LET fb == userPtr - SmallHeaderSize
        bin == RdBinIndex(m, fb)
    IN IF bin < 0
       THEN [mem |-> m, fl |-> fl, valid |-> FALSE, totalSz |-> 0]
       ELSE [mem |-> WrU64(m, fb + SmallOffNext, 0),
             fl |-> [fl EXCEPT ![bin] = fb],
             valid |-> TRUE, totalSz |-> SmallTotal(bin)]

\* ThreadLocalSmallCache::freeSmall for a non-null pointer
freeSmall(m, fl, userPtr) ==
    LET fb == userPtr - SmallHeaderSize
        bin == RdBinIndex(m, fb)
    IN IF bin < 0
       THEN [mem |-> m, fl |-> fl, valid |-> FALSE, totalSz |-> 0]
       ELSE [mem |-> WrU64(m, fb + SmallOffNext, fl[bin]),
             fl |-> [fl EXCEPT ![bin] = fb],
             valid |-> TRUE, totalSz |-> SmallTotal(bin)]

(***************************************************************************)
(* Manager and facade                                                      *)
(***************************************************************************)
\* the constructor storing true instead of its argument
ManagerCtorAlwaysOn(enable) ==
    [mgr |-> [enableReclamation_ |-> TRUE, stopThread_ |-> FALSE, mgrMutex_ |-> "none",
              dtor |-> "none", k |-> 0],
     bg |-> [pc |-> "wait", i |-> 0]]

\* GlobalArenaManager::GlobalArenaManager: the reclaimer thread is started
\* only when reclamation is enabled; dtor and k say where the destructor is
ManagerCtor(enable) ==
    [mgr |-> [enableReclamation_ |-> enable, stopThread_ |-> FALSE, mgrMutex_ |-> "none",
              dtor |-> "none", k |-> 0],
     bg |-> [pc |-> IF enable THEN "wait" ELSE "none", i |-> 0]]

NextArenaId == Cardinality({a \in ArenaIds : arena[a].state # "none"}) + 1
RegionBase(a) == a * RegionStride
ChunkAddr(n) == ChunkOrigin + n * ChunkStride

\* the marker test of FancyPerThreadAllocator::deallocate
MarkerIsMagic(m, ptr) == IsMagic(m, ptr - MarkerBack)

\* getThreadData handing a thread the arena another thread already created
getThreadDataShared(t) ==
    IF tld[t].arena # 0
    THEN [mem |-> mem, arena |-> arena, arenas_ |-> arenas_, tld |-> tld[t]]
    ELSE IF arena[1].state # "none"
    THEN [mem |-> mem, arena |-> arena, arenas_ |-> arenas_, tld |-> [NoTld EXCEPT !.arena = 1]]
    ELSE LET r == ArenaCtor(mem, RegionBase(1), DefaultArenaSize)
         IN [mem |-> r.mem, arena |-> [arena EXCEPT ![1] = r.ar],
             arenas_ |-> Append(arenas_, 1), tld |-> [NoTld EXCEPT !.arena = 1]]

\* FancyPerThreadAllocator::getThreadData with GlobalArenaManager::createArena:
\* the memory, arena table, manager sequence and tld_ after the call
getThreadData(t) ==
    IF tld[t].arena # 0
    THEN [mem |-> mem, arena |-> arena, arenas_ |-> arenas_, tld |-> tld[t]]
    ELSE LET a == NextArenaId
             r == ArenaCtor(mem, RegionBase(a), DefaultArenaSize)
         IN [mem |-> r.mem, arena |-> [arena EXCEPT ![a] = r.ar],
             arenas_ |-> Append(arenas_, a), tld |-> [NoTld EXCEPT !.arena = a]]

\* createArena takes mgrMutex_, so a thread that still has to bind waits for it
CanBind(t) == tld[t].arena # 0 \/ mgr.mgrMutex_ = "none"

\* A call on an Arena object that was deleted is undefined: the process may
\* die, or the call may run on the stale object and its released region
UseOutcomes(ar) == IF ar.state = "destroyed" THEN {"crash", "stale"} ELSE {"defined"}

Crash(t) ==
    /\ pc' = [pc EXCEPT ![t] = "crashed"]
    /\ seen' = [seen EXCEPT !.call.dead = TRUE]
    /\ UNCHANGED << mem, arena, mtx, arenas_, tld, stats, loc, nchunks, live >>

\* a crash ends the process: no thread takes another step
Running == \A t \in Threads : pc[t] # "crashed"

\* no thread is inside a call
AllIdle == \A t \in Threads : pc[t] = "idle"

\* the allocator has not begun to be destroyed: callers may use it
Open == mgr.dtor = "none"

\* the small path taken below 256 only
RouteSmallBelow(size) == size < SmallLimit

\* if(size <= 256): the request goes to the small cache, else to the arena
RouteSmall(size) == size <= SmallLimit

\* allocate passing a size of 0 on as it is
PromoteZeroKeep(size) == size

\* if(size==0) size=1;
PromoteZero(size) == IF size = 0 THEN 1 ELSE size

\* FancyPerThreadAllocator::allocate up to and including the fetch_add on
\* currentUsedBytes; the peak update follows in LoadCurrent, LoadPeak, CasPeak
Allocate(t, size0) ==
    /\ Running
    /\ Open
    /\ pc[t] = "idle"
    /\ calls < MaxCalls
    /\ CanBind(t)
    /\ \E size \in {PromoteZero(size0)}, g \in {getThreadData(t)} :
       LET a == g.tld.arena
       IN IF RouteSmall(size)
          THEN \E r \in {allocateSmall(g.mem, g.tld.freeList_, size, ChunkAddr(nchunks))} :
               LET cur == stats.currentUsedBytes + r.totalSz
               IN /\ mem' = r.mem
                  /\ arena' = g.arena
                  /\ arenas_' = g.arenas_
                  /\ tld' = [tld EXCEPT ![t] = [g.tld EXCEPT !.freeList_ = r.fl]]
                  /\ mtx' = mtx
                  /\ nchunks' = IF r.fresh THEN nchunks + 1 ELSE nchunks
                  /\ stats' = IF r.fresh
                              THEN [stats EXCEPT !.totalAllocCalls = @ + 1,
                                                 !.currentUsedBytes = cur]
                              ELSE stats
                  /\ pc' = [pc EXCEPT ![t] = IF r.fresh THEN "load_c" ELSE "idle"]
                  /\ loc' = [loc EXCEPT ![t] =
                                IF r.fresh
                                THEN [NoLocals EXCEPT !.ret = r.ptr, !.size = size, !.id = calls]
                                ELSE NoLocals]
                  /\ live' = IF r.fresh THEN live
                             ELSE live \cup {[ptr |-> r.ptr, size |-> size, t |-> t,
                                              id |-> calls]}
                  /\ seen' = Seen(cur, Call("allocate", t, r.ptr, size,
                                            IF r.fresh THEN "chunk" ELSE "pop", FALSE))
          ELSE /\ mtx[a] = 0
               /\ \E outcome \in UseOutcomes(g.arena[a]) :
                    IF outcome = "crash"
                    THEN /\ Crash(t)
                         /\ nchunks' = nchunks
                    ELSE
                    \E r \in {ArenaAllocate(g.mem, g.arena[a], size, MaxAlign)} :
                    LET cur == stats.currentUsedBytes + r.needed
                    IN /\ mem' = r.mem
                       /\ arena' = [g.arena EXCEPT ![a] = r.ar]
                       /\ arenas_' = g.arenas_
                       /\ tld' = [tld EXCEPT ![t] = g.tld]
                       /\ nchunks' = nchunks
                       /\ stats' = [stats EXCEPT !.totalAllocCalls = @ + 1,
                                                 !.currentUsedBytes = cur]
                       /\ mtx' = IF r.ptr # 0 \/ r.hang THEN [mtx EXCEPT ![a] = t] ELSE mtx
                       /\ pc' = [pc EXCEPT ![t] = IF r.hang THEN "hang"
                                                  ELSE IF r.ptr # 0 THEN "load_c" ELSE "idle"]
                       /\ loc' = [loc EXCEPT ![t] =
                                     IF r.ptr # 0
                                     THEN [NoLocals EXCEPT !.ret = r.ptr, !.size = size,
                                                           !.id = calls]
                                     ELSE NoLocals]
                       /\ live' = live
                       /\ seen' = Seen(cur, Call("allocate", t, r.ptr, size, "arena",
                                                 outcome = "stale"))
    /\ calls' = calls + 1
    /\ UNCHANGED << mgr, bg, enableReclamation >>

\* the return from allocate leaving the arena's mutex locked
ReturnKeepLock(t) ==
    /\ pc' = [pc EXCEPT ![t] = "idle"]
    /\ mtx' = mtx
    /\ live' = live \cup {[ptr |-> loc[t].ret, size |-> loc[t].size, t |-> t,
                           id |-> loc[t].id]}
    /\ loc' = [loc EXCEPT ![t] = NoLocals]

\* return from allocate: the arena's lock_guard is released, the caller owns ret
Return(t) ==
    /\ pc' = [pc EXCEPT ![t] = "idle"]
    /\ mtx' = [a \in ArenaIds |-> IF mtx[a] = t THEN 0 ELSE mtx[a]]
    /\ live' = live \cup {[ptr |-> loc[t].ret, size |-> loc[t].size, t |-> t,
                           id |-> loc[t].id]}
    /\ loc' = [loc EXCEPT ![t] = NoLocals]

\* auto c = stats.currentUsedBytes.load();
LoadCurrent(t) ==
    /\ Running
    /\ pc[t] = "load_c"
    /\ pc' = [pc EXCEPT ![t] = "load_p"]
    /\ loc' = [loc EXCEPT ![t].c = stats.currentUsedBytes]
    /\ UNCHANGED << mem, arena, mtx, arenas_, mgr, bg, tld, stats, nchunks,
                    enableReclamation, live, calls, seen >>

\* auto p = stats.peakUsedBytes.load(); and the first test of while(c>p)
LoadPeak(t) ==
    /\ Running
    /\ pc[t] = "load_p"
    /\ IF UGt(loc[t].c, stats.peakUsedBytes)
       THEN /\ pc' = [pc EXCEPT ![t] = "cas"]
            /\ loc' = [loc EXCEPT ![t].p = stats.peakUsedBytes]
            /\ UNCHANGED << mtx, live >>
       ELSE Return(t)
    /\ UNCHANGED << mem, arena, arenas_, mgr, bg, tld, stats, nchunks,
                    enableReclamation, calls, seen >>

\* the peak update storing c without comparing peakUsedBytes with p
CasPeakPlainStore(t) ==
    /\ Running
    /\ pc[t] = "cas"
    /\ stats' = [stats EXCEPT !.peakUsedBytes = loc[t].c]
    /\ Return(t)
    /\ UNCHANGED << mem, arena, arenas_, mgr, bg, tld, nchunks,
                    enableReclamation, calls, seen >>

\* one compare_exchange_weak(p, c) and the loop test after it; a spurious
\* failure reloads p with the value it already has and changes nothing
CasPeak(t) ==
    /\ Running
    /\ pc[t] = "cas"
    /\ IF stats.peakUsedBytes = loc[t].p
       THEN /\ stats' = [stats EXCEPT !.peakUsedBytes = loc[t].c]
            /\ Return(t)
       ELSE /\ stats' = stats
            /\ IF UGt(loc[t].c, stats.peakUsedBytes)
               THEN /\ loc' = [loc EXCEPT ![t].p = stats.peakUsedBytes]
                    /\ UNCHANGED << pc, mtx, live >>
               ELSE Return(t)
    /\ UNCHANGED << mem, arena, arenas_, mgr, bg, tld, nchunks,
                    enableReclamation, calls, seen >>

\* FancyPerThreadAllocator::deallocate(ptr), the whole call; size is what the
\* pointer was requested with and held the pointers the callers own after it
FreeCall(t, ptr, size, op, held) ==
    /\ Running
    /\ Open
    /\ pc[t] = "idle"
    /\ CanBind(t)
    /\ \E g \in {getThreadData(t)} :
       LET a == g.tld.arena
       IN IF MarkerIsMagic(mem, ptr)
          THEN /\ mtx[a] = 0
               /\ \E outcome \in UseOutcomes(g.arena[a]) :
                    IF outcome = "crash"
                    THEN /\ pc' = [pc EXCEPT ![t] = "crashed"]
                         /\ seen' = [seen EXCEPT !.call.dead = TRUE]
                         /\ UNCHANGED << mem, arena, mtx, arenas_, tld, stats, live >>
                    ELSE
                    \E r \in {ArenaDeallocate(g.mem, g.arena[a], ptr)} :
                    LET cur == stats.currentUsedBytes - r.sz
                    IN /\ mem' = r.mem
                       /\ arena' = [g.arena EXCEPT ![a] = r.ar]
                       /\ arenas_' = g.arenas_
                       /\ tld' = [tld EXCEPT ![t] = g.tld]
                       /\ stats' = [stats EXCEPT !.totalFreeCalls = @ + 1,
                                                 !.currentUsedBytes = cur]
                       /\ mtx' = IF r.hang THEN [mtx EXCEPT ![a] = t] ELSE mtx
                       /\ pc' = IF r.hang THEN [pc EXCEPT ![t] = "hang"] ELSE pc
                       /\ live' = held
                       /\ seen' = Seen(cur, Call(op, t, ptr, size,
                                                 IF r.valid THEN "arena" ELSE "arena_reject",
                                                 outcome = "stale"))
          ELSE \E r \in {freeSmall(g.mem, g.tld.freeList_, ptr)} :
               LET cur == stats.currentUsedBytes - r.totalSz
               IN /\ mem' = r.mem
                  /\ arena' = g.arena
                  /\ arenas_' = g.arenas_
                  /\ tld' = [tld EXCEPT ![t] = [g.tld EXCEPT !.freeList_ = r.fl]]
                  /\ stats' = IF r.valid
                              THEN [stats EXCEPT !.totalFreeCalls = @ + 1,
                                                 !.currentUsedBytes = cur]
                              ELSE stats
                  /\ live' = held
                  /\ UNCHANGED << mtx, pc >>
                  /\ seen' = Seen(cur, Call(op, t, ptr, size,
                                            IF r.valid THEN "small" ELSE "small_reject",
                                            FALSE))
    /\ UNCHANGED << mgr, bg, loc, nchunks, enableReclamation, calls >>

\* deallocate of a pointer some caller holds
Deallocate(t, l) ==
    /\ l \in live
    /\ FreeCall(t, l.ptr, l.size, "free", live \ {l})

\* deallocate called a second time on the pointer the previous call freed,
\* with no allocation in between
DeallocateAgain(t) ==
    /\ seen.call.op \in {"free", "free_again"}
    /\ stats.totalFreeCalls < MaxFrees
    /\ FreeCall(t, seen.call.ptr, seen.call.size, "free_again", live)

\* the state after FancyPerThreadAllocator's constructor, given its flag
InitWith(enable) ==
    /\ mem = << >>
    /\ arena = [a \in ArenaIds |-> NoArena]
    /\ mtx = [a \in ArenaIds |-> 0]
    /\ arenas_ = << >>
    /\ mgr = ManagerCtor(enable).mgr
    /\ bg = ManagerCtor(enable).bg
    /\ tld = [t \in Threads |-> NoTld]
    /\ stats = NoStats
    /\ pc = [t \in Threads |-> "idle"]
    /\ loc = [t \in Threads |-> NoLocals]
    /\ nchunks = 0
    /\ enableReclamation = enable
    /\ live = {}
    /\ calls = 0
    /\ seen = [maxCurrent |-> 0, call |-> NoCall]

\* enableReclamation defaults to false
Init == InitWith(FALSE)

Next ==
    \/ \E t \in Threads, size \in Sizes : Allocate(t, size)
    \/ \E t \in Threads : LoadCurrent(t)
    \/ \E t \in Threads : LoadPeak(t)
    \/ \E t \in Threads : CasPeak(t)
    \/ \E t \in Threads, l \in live : Deallocate(t, l)

Spec == Init /\ [][Next]_vars

\* the same calls, with callers that may free a pointer twice
NextMisuse ==
    \/ \E t \in Threads, size \in Sizes : Allocate(t, size)
    \/ \E t \in Threads : LoadCurrent(t)
    \/ \E t \in Threads : LoadPeak(t)
    \/ \E t \in Threads : CasPeak(t)
    \/ \E t \in Threads, l \in live : Deallocate(t, l)
    \/ \E t \in Threads : DeallocateAgain(t)

SpecMisuse == Init /\ [][NextMisuse]_vars

\* the same calls with requests of 0 bytes and of 1 byte among them
NextZero ==
    \/ \E t \in Threads, size \in ZeroSizes : Allocate(t, size)
    \/ \E t \in Threads : LoadCurrent(t)
    \/ \E t \in Threads : LoadPeak(t)
    \/ \E t \in Threads : CasPeak(t)
    \/ \E t \in Threads, l \in live : Deallocate(t, l)

SpecZero == Init /\ [][NextZero]_vars

\* the same calls with requests on either side of the small/large threshold
NextRoute ==
    \/ \E t \in Threads, size \in RouteSizes : Allocate(t, size)
    \/ \E t \in Threads : LoadCurrent(t)
    \/ \E t \in Threads : LoadPeak(t)
    \/ \E t \in Threads : CasPeak(t)
    \/ \E t \in Threads, l \in live : Deallocate(t, l)

SpecRoute == Init /\ [][NextRoute]_vars

(***************************************************************************)
(* The reclaimer: GlobalArenaManager::bgLoop                               *)
(***************************************************************************)
\* Arena::destroy releasing the region without nulling memory_
destroyKeepPointer(ar) ==
    IF ar.memory_ # 0 THEN [ar EXCEPT !.released = @ + 1] ELSE ar

\* Arena::destroy: the region is released and memory_ is nulled
destroy(ar) ==
    IF ar.memory_ # 0 THEN [ar EXCEPT !.memory_ = 0, !.released = @ + 1] ELSE ar

\* Arena::~Arena, run by delete: releases the region if memory_ is not null;
\* the object's other fields stay as they were in the freed storage
ArenaDtor(ar) ==
    IF ar.memory_ # 0
    THEN [ar EXCEPT !.state = "destroyed", !.released = @ + 1]
    ELSE [ar EXCEPT !.state = "destroyed"]

\* ar->destroy(); delete ar;
DestroyArena(ar) == ArenaDtor(destroy(ar))

RemoveAt(seq, i) == [j \in 1..(Len(seq) - 1) |-> IF j < i THEN seq[j] ELSE seq[j + 1]]

\* the end of one pass of the for loop: the next arena, or the lock is dropped
\* and the thread is back in wait_for
SweepFrom(i, count) ==
    IF i <= count
    THEN [mgrMutex_ |-> "bg", bg |-> [pc |-> "sweep", i |-> i]]
    ELSE [mgrMutex_ |-> "none", bg |-> [pc |-> "wait", i |-> 0]]

\* BgWake with the loop ignoring stopThread_
BgWakeIgnoresStop ==
    /\ Running
    /\ bg.pc = "wait"
    /\ mgr.mgrMutex_ = "none"
    /\ IF ~mgr.enableReclamation_
       THEN UNCHANGED << bg, mgr >>
       ELSE LET n == SweepFrom(1, Len(arenas_))
            IN /\ bg' = n.bg
               /\ mgr' = [mgr EXCEPT !.mgrMutex_ = n.mgrMutex_]
    /\ UNCHANGED << mem, arena, mtx, arenas_, tld, stats, pc, loc, nchunks,
                    enableReclamation, live, calls, seen >>

\* wait_for returns with mgrMutex_ held (timeout or stopThread_), then the
\* two tests at the top of the loop body
BgWake ==
    /\ Running
    /\ bg.pc = "wait"
    /\ mgr.mgrMutex_ = "none"
    /\ IF mgr.stopThread_
       THEN /\ bg' = [pc |-> "done", i |-> 0]
            /\ mgr' = mgr
       ELSE IF ~mgr.enableReclamation_
       THEN UNCHANGED << bg, mgr >>
       ELSE LET n == SweepFrom(1, Len(arenas_))
            IN /\ bg' = n.bg
               /\ mgr' = [mgr EXCEPT !.mgrMutex_ = n.mgrMutex_]
    /\ UNCHANGED << mem, arena, mtx, arenas_, tld, stats, pc, loc, nchunks,
                    enableReclamation, live, calls, seen >>

\* ar->coalesceAll(): takes and drops the arena's mutex
BgCoalesceAll ==
    /\ Running
    /\ bg.pc = "sweep"
    /\ mtx[arenas_[bg.i]] = 0
    /\ bg' = [bg EXCEPT !.pc = "check"]
    /\ UNCHANGED << mem, arena, mtx, arenas_, mgr, tld, stats, pc, loc, nchunks,
                    enableReclamation, live, calls, seen >>

\* if(ar->fullyFree()) { destroy; delete; erase } else i++
BgCheck ==
    /\ Running
    /\ bg.pc = "check"
    /\ LET a == arenas_[bg.i]
           idle == arena[a].usedBytes_ = 0
           rest == IF idle THEN RemoveAt(arenas_, bg.i) ELSE arenas_
           n == SweepFrom(IF idle THEN bg.i ELSE bg.i + 1, Len(rest))
       IN /\ arena' = IF idle THEN [arena EXCEPT ![a] = DestroyArena(@)] ELSE arena
          /\ arenas_' = rest
          /\ bg' = n.bg
          /\ mgr' = [mgr EXCEPT !.mgrMutex_ = n.mgrMutex_]
    /\ UNCHANGED << mem, mtx, tld, stats, pc, loc, nchunks,
                    enableReclamation, live, calls, seen >>

InitReclaim == \E enable \in BOOLEAN : InitWith(enable)

NextReclaim ==
    \/ \E t \in Threads, size \in ReclaimSizes : Allocate(t, size)
    \/ \E t \in Threads : LoadCurrent(t)
    \/ \E t \in Threads : LoadPeak(t)
    \/ \E t \in Threads : CasPeak(t)
    \/ \E t \in Threads, l \in live : Deallocate(t, l)
    \/ BgWake
    \/ BgCoalesceAll
    \/ BgCheck

\* wait_for times out every second and the mutexes the reclaimer takes are
\* released by every thread that returns, so each of its steps is taken
\* once it stays possible
SpecReclaim ==
    /\ InitReclaim
    /\ [][NextReclaim]_vars
    /\ WF_vars(BgWake)
    /\ WF_vars(BgCoalesceAll)
    /\ WF_vars(BgCheck)

(***************************************************************************)
(* The reclaimer against a call in progress: Arena::allocate taken in two  *)
(* steps, the lock_guard and the critical section                          *)
(***************************************************************************)
\* FancyPerThreadAllocator::allocate for a size above 256, up to and
\* including std::lock_guard lock(mtx_) in Arena::allocate
ArenaLock(t, size0) ==
    /\ Running
    /\ Open
    /\ pc[t] = "idle"
    /\ calls < MaxCalls
    /\ CanBind(t)
    /\ ~RouteSmall(PromoteZero(size0))
    /\ \E g \in {getThreadData(t)} :
          /\ mtx[g.tld.arena] = 0
          /\ \E outcome \in UseOutcomes(g.arena[g.tld.arena]) :
                IF outcome = "crash"
                THEN Crash(t)
                ELSE /\ mem' = g.mem
                     /\ arena' = g.arena
                     /\ arenas_' = g.arenas_
                     /\ tld' = [tld EXCEPT ![t] = g.tld]
                     /\ mtx' = [mtx EXCEPT ![g.tld.arena] = t]
                     /\ pc' = [pc EXCEPT ![t] = "locked"]
                     /\ loc' = [loc EXCEPT ![t] = [NoLocals EXCEPT !.size = PromoteZero(size0),
                                                                   !.id = calls]]
                     /\ seen' = [seen EXCEPT !.call.dead = @ \/ outcome = "stale"]
                     /\ UNCHANGED << stats, live >>
    /\ calls' = calls + 1
    /\ UNCHANGED << mgr, bg, nchunks, enableReclamation >>

\* the critical section of Arena::allocate, from totalAllocCalls.fetch_add to
\* the fetch_add on currentUsedBytes; a nullptr result drops the lock
ArenaBody(t) ==
    /\ Running
    /\ pc[t] = "locked"
    /\ \E outcome \in UseOutcomes(arena[tld[t].arena]) :
          IF outcome = "crash"
          THEN Crash(t)
          ELSE \E r \in {ArenaAllocate(mem, arena[tld[t].arena], loc[t].size, MaxAlign)} :
               LET cur == stats.currentUsedBytes + r.needed
               IN /\ mem' = r.mem
                  /\ arena' = [arena EXCEPT ![tld[t].arena] = r.ar]
                  /\ stats' = [stats EXCEPT !.totalAllocCalls = @ + 1,
                                            !.currentUsedBytes = cur]
                  /\ mtx' = IF r.ptr # 0 \/ r.hang THEN mtx
                            ELSE [mtx EXCEPT ![tld[t].arena] = 0]
                  /\ pc' = [pc EXCEPT ![t] = IF r.hang THEN "hang"
                                             ELSE IF r.ptr # 0 THEN "load_c" ELSE "idle"]
                  /\ loc' = [loc EXCEPT ![t] = IF r.ptr # 0 THEN [@ EXCEPT !.ret = r.ptr]
                                               ELSE NoLocals]
                  /\ seen' = Seen(cur, Call("allocate", t, r.ptr, loc[t].size, "arena",
                                            outcome = "stale"))
                  /\ UNCHANGED << arenas_, tld, live >>
    /\ UNCHANGED << mgr, bg, nchunks, enableReclamation, calls >>

NextRace ==
    \/ \E t \in Threads, size \in RaceSmallSizes : Allocate(t, size)
    \/ \E t \in Threads, size \in RaceLargeSizes : ArenaLock(t, size)
    \/ \E t \in Threads : ArenaBody(t)
    \/ \E t \in Threads : LoadCurrent(t)
    \/ \E t \in Threads : LoadPeak(t)
    \/ \E t \in Threads : CasPeak(t)
    \/ \E t \in Threads, l \in live : Deallocate(t, l)
    \/ BgWake
    \/ BgCoalesceAll
    \/ BgCheck

SpecRace == InitReclaim /\ [][NextRace]_vars

\* the calls that take a mutex, scheduled: requests for the arena only, a
\* thread inside a call keeps running until the call returns, and the
\* reclaimer is scheduled as in SpecReclaim; callers are not obliged to call.
\* ArenaBody(t) is enabled exactly when the process runs and pc[t] = "locked",
\* and it leaves "locked", so weak fairness of ArenaBody(t) is the condition
\* that t is again and again not in that position
NextLock ==
    \/ \E t \in Threads, size \in RaceLargeSizes : ArenaLock(t, size)
    \/ \E t \in Threads : ArenaBody(t)
    \/ \E t \in Threads : LoadCurrent(t)
    \/ \E t \in Threads : LoadPeak(t)
    \/ \E t \in Threads : CasPeak(t)
    \/ \E t \in Threads, l \in live : Deallocate(t, l)
    \/ BgWake
    \/ BgCoalesceAll
    \/ BgCheck

SpecLock ==
    /\ InitReclaim
    /\ [][NextLock]_vars
    /\ WF_vars(BgWake)
    /\ WF_vars(BgCoalesceAll)
    /\ WF_vars(BgCheck)
    /\ \A t \in Threads :
          /\ []<>(~(Running /\ pc[t] = "locked"))
          /\ WF_vars(LoadCurrent(t))
          /\ WF_vars(LoadPeak(t))
          /\ WF_vars(CasPeak(t))

(***************************************************************************)
(* Shutdown: GlobalArenaManager::~GlobalArenaManager                       *)
(***************************************************************************)
\* the facade is destroyed and drops manager_, its only owner: the manager's
\* destructor begins; the owner destroys the allocator when no call is running
DtorCall ==
    /\ Running
    /\ Open
    /\ AllIdle
    /\ mgr' = [mgr EXCEPT !.dtor = "lock"]
    /\ UNCHANGED << mem, arena, mtx, arenas_, bg, tld, stats, pc, loc, nchunks,
                    enableReclamation, live, calls, seen >>

\* { lock_guard lk(mgrMutex_); stopThread_ = true; } cv_.notify_all();
DtorStop ==
    /\ Running
    /\ mgr.dtor = "lock"
    /\ mgr.mgrMutex_ = "none"
    /\ mgr' = [mgr EXCEPT !.stopThread_ = TRUE, !.dtor = "join"]
    /\ UNCHANGED << mem, arena, mtx, arenas_, bg, tld, stats, pc, loc, nchunks,
                    enableReclamation, live, calls, seen >>

\* if(bgThread_.joinable()) bgThread_.join(); returns once bgLoop has returned
DtorJoin ==
    /\ Running
    /\ mgr.dtor = "join"
    /\ bg.pc \in {"none", "done"}
    /\ mgr' = [mgr EXCEPT !.dtor = "clean", !.k = 1]
    /\ UNCHANGED << mem, arena, mtx, arenas_, bg, tld, stats, pc, loc, nchunks,
                    enableReclamation, live, calls, seen >>

\* one pass of for(auto* a: arenas_){ a->destroy(); delete a; }, or its end
DtorClean ==
    /\ Running
    /\ mgr.dtor = "clean"
    /\ IF mgr.k <= Len(arenas_)
       THEN /\ arena' = [arena EXCEPT ![arenas_[mgr.k]] = DestroyArena(@)]
            /\ mgr' = [mgr EXCEPT !.k = @ + 1]
       ELSE /\ arena' = arena
            /\ mgr' = [mgr EXCEPT !.dtor = "done"]
    /\ UNCHANGED << mem, mtx, arenas_, bg, tld, stats, pc, loc, nchunks,
                    enableReclamation, live, calls, seen >>

NextShutdown ==
    \/ \E t \in Threads, size \in ReclaimSizes : Allocate(t, size)
    \/ \E t \in Threads : LoadCurrent(t)
    \/ \E t \in Threads : LoadPeak(t)
    \/ \E t \in Threads : CasPeak(t)
    \/ \E t \in Threads, l \in live : Deallocate(t, l)
    \/ BgWake
    \/ BgCoalesceAll
    \/ BgCheck
    \/ DtorCall
    \/ DtorStop
    \/ DtorJoin
    \/ DtorClean

\* the reclaimer is scheduled as in SpecReclaim. It gives up mgrMutex_ for a
\* second after every sweep, so the destructor's lock_guard, which waits for
\* the mutex, gets it; join and the clean-up loop run without waiting
SpecShutdown ==
    /\ InitReclaim
    /\ [][NextShutdown]_vars
    /\ WF_vars(BgWake)
    /\ WF_vars(BgCoalesceAll)
    /\ WF_vars(BgCheck)
    /\ SF_vars(DtorStop)
    /\ WF_vars(DtorJoin)
    /\ WF_vars(DtorClean)

(***************************************************************************)
(* The arena used directly: one caller, Arena::allocate and                *)
(* Arena::deallocate on one arena of DirectArenaSize bytes                 *)
(***************************************************************************)
\* the peak update of allocate when no other thread runs between its steps
PeakLoop(st) ==
    IF UGt(st.currentUsedBytes, st.peakUsedBytes)
    THEN [st EXCEPT !.peakUsedBytes = st.currentUsedBytes]
    ELSE st

\* Arena::allocate(reqSize, alignment, stats), the whole call
DirectAllocate(reqSize, alignment) ==
    /\ calls < MaxDirectCalls
    /\ pc[1] = "idle"
    /\ \E r \in {ArenaAllocate(mem, arena[1], reqSize, alignment)} :
       LET cur == stats.currentUsedBytes + r.needed
       IN /\ mem' = r.mem
          /\ arena' = [arena EXCEPT ![1] = r.ar]
          /\ stats' = PeakLoop([stats EXCEPT !.totalAllocCalls = @ + 1,
                                             !.currentUsedBytes = cur])
          /\ pc' = IF r.hang THEN [pc EXCEPT ![1] = "hang"] ELSE pc
          /\ mtx' = IF r.hang THEN [mtx EXCEPT ![1] = 1] ELSE mtx
          /\ live' = IF r.ptr = 0 THEN live
                     ELSE live \cup {[ptr |-> r.ptr, size |-> reqSize, t |-> 1, id |-> calls]}
          /\ seen' = Seen(cur, Call("allocate", 1, r.ptr, reqSize, "arena", FALSE))
    /\ calls' = calls + 1
    /\ UNCHANGED << arenas_, mgr, bg, tld, loc, nchunks, enableReclamation >>

\* Arena::deallocate(userPtr, stats), the whole call, on a pointer the caller holds
DirectDeallocate(l) ==
    /\ pc[1] = "idle"
    /\ l \in live
    /\ \E r \in {ArenaDeallocate(mem, arena[1], l.ptr)} :
       LET cur == stats.currentUsedBytes - r.sz
       IN /\ mem' = r.mem
          /\ arena' = [arena EXCEPT ![1] = r.ar]
          /\ stats' = [stats EXCEPT !.totalFreeCalls = @ + 1, !.currentUsedBytes = cur]
          /\ pc' = IF r.hang THEN [pc EXCEPT ![1] = "hang"] ELSE pc
          /\ mtx' = IF r.hang THEN [mtx EXCEPT ![1] = 1] ELSE mtx
          /\ seen' = Seen(cur, Call("free", 1, l.ptr, l.size,
                                    IF r.valid THEN "arena" ELSE "arena_reject", FALSE))
    /\ live' = live \ {l}
    /\ UNCHANGED << arenas_, mgr, bg, tld, loc, nchunks, enableReclamation, calls >>

\* Arena::deallocate(userPtr, stats) called again on the pointer that the
\* previous call deallocated, the whole call
DirectDeallocateAgain ==
    /\ pc[1] = "idle"
    /\ seen.call.op = "free"
    /\ stats.totalFreeCalls < MaxDirectFrees
    /\ \E r \in {ArenaDeallocate(mem, arena[1], seen.call.ptr)} :
       LET cur == stats.currentUsedBytes - r.sz
       IN /\ mem' = r.mem
          /\ arena' = [arena EXCEPT ![1] = r.ar]
          /\ stats' = [stats EXCEPT !.totalFreeCalls = @ + 1, !.currentUsedBytes = cur]
          /\ pc' = IF r.hang THEN [pc EXCEPT ![1] = "hang"] ELSE pc
          /\ mtx' = IF r.hang THEN [mtx EXCEPT ![1] = 1] ELSE mtx
          /\ seen' = Seen(cur, Call("free", 1, seen.call.ptr, seen.call.size,
                                    IF r.valid THEN "arena" ELSE "arena_reject", FALSE))
    /\ UNCHANGED << arenas_, mgr, bg, tld, loc, nchunks, enableReclamation, live, calls >>

InitArena ==
    /\ \E r \in {ArenaCtor(<< >>, RegionBase(1), DirectArenaSize)} :
          /\ mem = r.mem
          /\ arena = [a \in ArenaIds |-> IF a = 1 THEN r.ar ELSE NoArena]
    /\ mtx = [a \in ArenaIds |-> 0]
    /\ arenas_ = << >>
    /\ mgr = ManagerCtor(FALSE).mgr
    /\ bg = ManagerCtor(FALSE).bg
    /\ tld = [t \in Threads |-> NoTld]
    /\ stats = NoStats
    /\ pc = [t \in Threads |-> "idle"]
    /\ loc = [t \in Threads |-> NoLocals]
    /\ nchunks = 0
    /\ enableReclamation = FALSE
    /\ live = {}
    /\ calls = 0
    /\ seen = [maxCurrent |-> 0, call |-> NoCall]

NextArena ==
    \/ \E reqSize \in DirectSizes, alignment \in DirectAligns :
          DirectAllocate(reqSize, alignment)
    \/ \E l \in live : DirectDeallocate(l)
    \/ DirectDeallocateAgain

SpecArena == InitArena /\ [][NextArena]_vars

(***************************************************************************)
(* Two arenas used directly by both threads: every Arena::allocate and     *)
(* Arena::deallocate in two steps, the lock_guard and the critical section *)
(***************************************************************************)
\* the arena whose region holds the address
ArenaOfPtr(ptr) == ptr \div RegionStride

\* the lock_guard taking mtx_ whether or not another thread holds it
SharedLockNoWait(t, a, reqSize, userPtr) ==
    /\ pc[t] = "idle"
    /\ reqSize > 0 => calls < MaxSharedCalls
    /\ mtx' = [mtx EXCEPT ![a] = t]
    /\ pc' = [pc EXCEPT ![t] = "locked"]
    /\ loc' = [loc EXCEPT ![t] = [NoLocals EXCEPT !.size = reqSize, !.ret = userPtr, !.id = a]]
    /\ calls' = IF reqSize > 0 THEN calls + 1 ELSE calls
    /\ live' = {l \in live : l.ptr # userPtr}
    /\ UNCHANGED << mem, arena, arenas_, mgr, bg, tld, stats, nchunks, enableReclamation, seen >>

\* std::lock_guard<std::mutex> lock(mtx_) of Arena::allocate (reqSize > 0) or
\* of Arena::deallocate (userPtr # 0) on arena a: the thread waits until the
\* mutex is free; a pointer passed to deallocate is no longer the caller's
SharedLock(t, a, reqSize, userPtr) ==
    /\ pc[t] = "idle"
    /\ reqSize > 0 => calls < MaxSharedCalls
    /\ mtx[a] = 0
    /\ mtx' = [mtx EXCEPT ![a] = t]
    /\ pc' = [pc EXCEPT ![t] = "locked"]
    /\ loc' = [loc EXCEPT ![t] = [NoLocals EXCEPT !.size = reqSize, !.ret = userPtr, !.id = a]]
    /\ calls' = IF reqSize > 0 THEN calls + 1 ELSE calls
    /\ live' = {l \in live : l.ptr # userPtr}
    /\ UNCHANGED << mem, arena, arenas_, mgr, bg, tld, stats, nchunks, enableReclamation, seen >>

\* the critical section of Arena::allocate or Arena::deallocate and the
\* return, which releases the mutex the thread took
SharedBody(t) ==
    /\ pc[t] = "locked"
    /\ IF loc[t].size > 0
       THEN \E r \in {ArenaAllocate(mem, arena[loc[t].id], loc[t].size, MaxAlign)} :
            LET cur == stats.currentUsedBytes + r.needed
            IN /\ mem' = r.mem
               /\ arena' = [arena EXCEPT ![loc[t].id] = r.ar]
               /\ stats' = PeakLoop([stats EXCEPT !.totalAllocCalls = @ + 1,
                                                  !.currentUsedBytes = cur])
               /\ pc' = [pc EXCEPT ![t] = IF r.hang THEN "hang" ELSE "idle"]
               /\ mtx' = IF r.hang THEN mtx
                         ELSE [a \in ArenaIds |-> IF mtx[a] = t THEN 0 ELSE mtx[a]]
               /\ live' = IF r.ptr = 0 THEN live
                          ELSE live \cup {[ptr |-> r.ptr, size |-> loc[t].size, t |-> t,
                                           id |-> calls]}
               /\ seen' = Seen(cur, Call("allocate", t, r.ptr, loc[t].size, "arena", FALSE))
       ELSE \E r \in {ArenaDeallocate(mem, arena[loc[t].id], loc[t].ret)} :
            LET cur == stats.currentUsedBytes - r.sz
            IN /\ mem' = r.mem
               /\ arena' = [arena EXCEPT ![loc[t].id] = r.ar]
               /\ stats' = [stats EXCEPT !.totalFreeCalls = @ + 1, !.currentUsedBytes = cur]
               /\ pc' = [pc EXCEPT ![t] = IF r.hang THEN "hang" ELSE "idle"]
               /\ mtx' = IF r.hang THEN mtx
                         ELSE [a \in ArenaIds |-> IF mtx[a] = t THEN 0 ELSE mtx[a]]
               /\ live' = live
               /\ seen' = Seen(cur, Call("free", t, loc[t].ret, 0,
                                         IF r.valid THEN "arena" ELSE "arena_reject", FALSE))
    /\ loc' = [loc EXCEPT ![t] = NoLocals]
    /\ UNCHANGED << arenas_, mgr, bg, tld, nchunks, enableReclamation, calls >>

InitShared ==
    /\ \E r1 \in {ArenaCtor(<< >>, RegionBase(1), DirectArenaSize)} :
       \E r2 \in {ArenaCtor(r1.mem, RegionBase(2), DirectArenaSize)} :
          /\ mem = r2.mem
          /\ arena = [a \in ArenaIds |-> IF a = 1 THEN r1.ar ELSE IF a = 2 THEN r2.ar
                                         ELSE NoArena]
    /\ mtx = [a \in ArenaIds |-> 0]
    /\ arenas_ = << >>
    /\ mgr = ManagerCtor(FALSE).mgr
    /\ bg = ManagerCtor(FALSE).bg
    /\ tld = [t \in Threads |-> NoTld]
    /\ stats = NoStats
    /\ pc = [t \in Threads |-> "idle"]
    /\ loc = [t \in Threads |-> NoLocals]
    /\ nchunks = 0
    /\ enableReclamation = FALSE
    /\ live = {}
    /\ calls = 0
    /\ seen = [maxCurrent |-> 0, call |-> NoCall]

NextShared ==
    \/ \E t \in Threads, a \in {1, 2}, reqSize \in SharedSizes : SharedLock(t, a, reqSize, 0)
    \/ \E t \in Threads, l \in live : SharedLock(t, ArenaOfPtr(l.ptr), 0, l.ptr)
    \/ \E t \in Threads : SharedBody(t)

SpecShared == InitShared /\ [][NextShared]_vars

(***************************************************************************)
(* ThreadLocalSmallCache used directly: allocateSmall and freeSmall on one *)
(* cache object, freeList_ kept in tld[1]; besides the pointers that       *)
(* allocateSmall returned the caller holds pointers to blocks of its own,  *)
(* whose headers the cache did not write                                   *)
(***************************************************************************)
\* the eight bytes of SmallBlockHeader::binIndex in the caller's own blocks:
\* the values 4, 264 and 2^32 + 1
ForeignHeaders ==
    << << 4, 0, 0, 0, 0, 0, 0, 0 >>,
       << 8, 1, 0, 0, 0, 0, 0, 0 >>,
       << 1, 0, 0, 0, 1, 0, 0, 0 >> >>

ForeignAddr(k) == ChunkAddr(MaxCacheCalls + k)

RECURSIVE ForeignMem(_)
ForeignMem(k) ==
    IF k = 0 THEN << >>
    ELSE Store(ForeignMem(k - 1), ForeignAddr(k), ForeignHeaders[k])

\* allocateSmall(reqSize, stats), the whole call
CacheAllocate(reqSize) ==
    /\ calls < MaxCacheCalls
    /\ \E r \in {allocateSmall(mem, tld[1].freeList_, reqSize, ChunkAddr(nchunks))} :
       LET cur == stats.currentUsedBytes + r.totalSz
       IN /\ mem' = r.mem
          /\ tld' = [tld EXCEPT ![1].freeList_ = r.fl]
          /\ nchunks' = IF r.fresh THEN nchunks + 1 ELSE nchunks
          /\ stats' = IF r.fresh
                      THEN PeakLoop([stats EXCEPT !.totalAllocCalls = @ + 1,
                                                  !.currentUsedBytes = cur])
                      ELSE stats
          /\ live' = IF r.ptr = 0 THEN live
                     ELSE live \cup {[ptr |-> r.ptr, size |-> reqSize, t |-> 1, id |-> calls]}
          /\ seen' = Seen(cur, Call("allocate", 1, r.ptr, reqSize,
                                    IF r.ptr = 0 THEN "none"
                                    ELSE IF r.fresh THEN "chunk" ELSE "pop", FALSE))
    /\ calls' = calls + 1
    /\ UNCHANGED << arena, mtx, arenas_, mgr, bg, pc, loc, enableReclamation >>

\* freeSmall(userPtr, stats), the whole call, on a pointer the caller holds
CacheFree(l) ==
    /\ l \in live
    /\ \E r \in {freeSmall(mem, tld[1].freeList_, l.ptr)} :
       LET cur == stats.currentUsedBytes - r.totalSz
       IN /\ mem' = r.mem
          /\ tld' = [tld EXCEPT ![1].freeList_ = r.fl]
          /\ stats' = IF r.valid
                      THEN [stats EXCEPT !.totalFreeCalls = @ + 1, !.currentUsedBytes = cur]
                      ELSE stats
          /\ seen' = Seen(cur, Call("free", 1, l.ptr, l.size,
                                    IF r.valid THEN "small" ELSE "small_reject", FALSE))
    /\ live' = live \ {l}
    /\ UNCHANGED << arena, mtx, arenas_, mgr, bg, pc, loc, nchunks, enableReclamation,
                    calls >>

InitCache ==
    /\ mem = ForeignMem(Len(ForeignHeaders))
    /\ arena = [a \in ArenaIds |-> NoArena]
    /\ mtx = [a \in ArenaIds |-> 0]
    /\ arenas_ = << >>
    /\ mgr = ManagerCtor(FALSE).mgr
    /\ bg = ManagerCtor(FALSE).bg
    /\ tld = [t \in Threads |-> NoTld]
    /\ stats = NoStats
    /\ pc = [t \in Threads |-> "idle"]
    /\ loc = [t \in Threads |-> NoLocals]
    /\ nchunks = 0
    /\ enableReclamation = FALSE
    /\ live = {[ptr |-> ForeignAddr(k) + SmallHeaderSize, size |-> 0, t |-> 1, id |-> 0 - k] :
                 k \in 1..Len(ForeignHeaders)}
    /\ calls = 0
    /\ seen = [maxCurrent |-> 0, call |-> NoCall]

NextCache ==
    \/ \E reqSize \in CacheSizes : CacheAllocate(reqSize)
    \/ \E l \in live : CacheFree(l)

SpecCache == InitCache /\ [][NextCache]_vars

(***************************************************************************)
(* Two FancyPerThreadAllocator objects in one program. Each has a manager  *)
(* and statistics of its own: mgr[h], arenas_[h] and stats[h] are those of *)
(* object h. tld_ is a static thread_local member, one per thread for all  *)
(* objects: tld[t]. Reclamation is off and every call is taken whole.      *)
(***************************************************************************)
\* getThreadData called through object h: createArena is h's manager's
HandleThreadData(h, t) ==
    IF tld[t].arena # 0
    THEN [mem |-> mem, arena |-> arena, arenas_ |-> arenas_, tld |-> tld[t]]
    ELSE LET a == NextArenaId
             r == ArenaCtor(mem, RegionBase(a), DefaultArenaSize)
         IN [mem |-> r.mem, arena |-> [arena EXCEPT ![a] = r.ar],
             arenas_ |-> [arenas_ EXCEPT ![h] = Append(@, a)],
             tld |-> [NoTld EXCEPT !.arena = a]]

\* FancyPerThreadAllocator::allocate(size) on object h, the whole call
HandleAllocate(h, t, size0) ==
    /\ Running
    /\ mgr[h].dtor = "none"
    /\ pc[t] = "idle"
    /\ calls < MaxHandleCalls
    /\ \E size \in {PromoteZero(size0)}, g \in {HandleThreadData(h, t)} :
       LET a == g.tld.arena
       IN IF RouteSmall(size)
          THEN \E r \in {allocateSmall(g.mem, g.tld.freeList_, size, ChunkAddr(nchunks))} :
               LET cur == stats[h].currentUsedBytes + r.totalSz
               IN /\ mem' = r.mem
                  /\ arena' = g.arena
                  /\ arenas_' = g.arenas_
                  /\ tld' = [tld EXCEPT ![t] = [g.tld EXCEPT !.freeList_ = r.fl]]
                  /\ nchunks' = IF r.fresh THEN nchunks + 1 ELSE nchunks
                  /\ stats' = IF r.fresh
                              THEN [stats EXCEPT ![h] =
                                      PeakLoop([@ EXCEPT !.totalAllocCalls = @ + 1,
                                                         !.currentUsedBytes = cur])]
                              ELSE stats
                  /\ live' = live \cup {[ptr |-> r.ptr, size |-> size, t |-> t, id |-> calls]}
                  /\ seen' = Seen(cur, Call("allocate", t, r.ptr, size,
                                            IF r.fresh THEN "chunk" ELSE "pop", FALSE))
                  /\ UNCHANGED << mtx, pc >>
          ELSE \E outcome \in UseOutcomes(g.arena[a]) :
                 IF outcome = "crash"
                 THEN /\ Crash(t)
                      /\ nchunks' = nchunks
                 ELSE
                 \E r \in {ArenaAllocate(g.mem, g.arena[a], size, MaxAlign)} :
                 LET cur == stats[h].currentUsedBytes + r.needed
                 IN /\ mem' = r.mem
                    /\ arena' = [g.arena EXCEPT ![a] = r.ar]
                    /\ arenas_' = g.arenas_
                    /\ tld' = [tld EXCEPT ![t] = g.tld]
                    /\ nchunks' = nchunks
                    /\ stats' = [stats EXCEPT ![h] =
                                   PeakLoop([@ EXCEPT !.totalAllocCalls = @ + 1,
                                                      !.currentUsedBytes = cur])]
                    /\ mtx' = IF r.hang THEN [mtx EXCEPT ![a] = t] ELSE mtx
                    /\ pc' = IF r.hang THEN [pc EXCEPT ![t] = "hang"] ELSE pc
                    /\ live' = IF r.ptr = 0 THEN live
                               ELSE live \cup {[ptr |-> r.ptr, size |-> size, t |-> t,
                                                id |-> calls]}
                    /\ seen' = Seen(cur, Call("allocate", t, r.ptr, size, "arena",
                                              outcome = "stale"))
    /\ calls' = calls + 1
    /\ UNCHANGED << mgr, bg, loc, enableReclamation >>

\* FancyPerThreadAllocator::deallocate(ptr) on object h, the whole call, on a
\* pointer a caller holds
HandleDeallocate(h, t, l) ==
    /\ Running
    /\ mgr[h].dtor = "none"
    /\ pc[t] = "idle"
    /\ l \in live
    /\ \E g \in {HandleThreadData(h, t)} :
       LET a == g.tld.arena
       IN IF MarkerIsMagic(mem, l.ptr)
          THEN \E outcome \in UseOutcomes(g.arena[a]) :
                 IF outcome = "crash"
                 THEN Crash(t)
                 ELSE
                 \E r \in {ArenaDeallocate(g.mem, g.arena[a], l.ptr)} :
                 LET cur == stats[h].currentUsedBytes - r.sz
                 IN /\ mem' = r.mem
                    /\ arena' = [g.arena EXCEPT ![a] = r.ar]
                    /\ arenas_' = g.arenas_
                    /\ tld' = [tld EXCEPT ![t] = g.tld]
                    /\ stats' = [stats EXCEPT ![h].totalFreeCalls = @ + 1,
                                              ![h].currentUsedBytes = cur]
                    /\ mtx' = IF r.hang THEN [mtx EXCEPT ![a] = t] ELSE mtx
                    /\ pc' = IF r.hang THEN [pc EXCEPT ![t] = "hang"] ELSE pc
                    /\ live' = live \ {l}
                    /\ seen' = Seen(cur, Call("free", t, l.ptr, l.size,
                                              IF r.valid THEN "arena" ELSE "arena_reject",
                                              outcome = "stale"))
          ELSE \E r \in {freeSmall(g.mem, g.tld.freeList_, l.ptr)} :
               LET cur == stats[h].currentUsedBytes - r.totalSz
               IN /\ mem' = r.mem
                  /\ arena' = g.arena
                  /\ arenas_' = g.arenas_
                  /\ tld' = [tld EXCEPT ![t] = [g.tld EXCEPT !.freeList_ = r.fl]]
                  /\ stats' = IF r.valid
                              THEN [stats EXCEPT ![h].totalFreeCalls = @ + 1,
                                                 ![h].currentUsedBytes = cur]
                              ELSE stats
                  /\ live' = live \ {l}
                  /\ UNCHANGED << mtx, pc >>
                  /\ seen' = Seen(cur, Call("free", t, l.ptr, l.size,
                                            IF r.valid THEN "small" ELSE "small_reject",
                                            FALSE))
    /\ UNCHANGED << mgr, bg, loc, nchunks, enableReclamation, calls >>

\* for(auto* a: arenas_){ a->destroy(); delete a; } from position i on
RECURSIVE DestroyFrom(_, _, _)
DestroyFrom(tab, seq, i) ==
    IF i > Len(seq) THEN tab
    ELSE DestroyFrom([tab EXCEPT ![seq[i]] = DestroyArena(@)], seq, i + 1)

\* object h is destroyed while no call runs: it drops manager_, its only
\* owner, and ~GlobalArenaManager sets stopThread_, has no thread to join
\* and destroys the arenas of its sequence
HandleDestroy(h) ==
    /\ Running
    /\ AllIdle
    /\ mgr[h].dtor = "none"
    /\ arena' = DestroyFrom(arena, arenas_[h], 1)
    /\ mgr' = [mgr EXCEPT ![h].stopThread_ = TRUE, ![h].dtor = "done",
                          ![h].k = Len(arenas_[h]) + 1]
    /\ UNCHANGED << mem, mtx, arenas_, bg, tld, stats, pc, loc, nchunks,
                    enableReclamation, live, calls, seen >>

InitHandles ==
    /\ mem = << >>
    /\ arena = [a \in ArenaIds |-> NoArena]
    /\ mtx = [a \in ArenaIds |-> 0]
    /\ arenas_ = [h \in Handles |-> << >>]
    /\ mgr = [h \in Handles |-> ManagerCtor(FALSE).mgr]
    /\ bg = ManagerCtor(FALSE).bg
    /\ tld = [t \in Threads |-> NoTld]
    /\ stats = [h \in Handles |-> NoStats]
    /\ pc = [t \in Threads |-> "idle"]
    /\ loc = [t \in Threads |-> NoLocals]
    /\ nchunks = 0
    /\ enableReclamation = FALSE
    /\ live = {}
    /\ calls = 0
    /\ seen = [maxCurrent |-> 0, call |-> NoCall]

NextHandles ==
    \/ \E h \in Handles, t \in Threads, size \in HandleSizes : HandleAllocate(h, t, size)
    \/ \E h \in Handles, t \in Threads, l \in live : HandleDeallocate(h, t, l)
    \/ \E h \in Handles : HandleDestroy(h)

SpecHandles == InitHandles /\ [][NextHandles]_vars

(***************************************************************************)
(* ThreadsafeCoalescingAllocator: one pool, an address-ordered doubly      *)
(* linked free list, one mutex held for the whole of every call. Here the  *)
(* variable arena holds the object's pool_, poolSize_ and freeListHead_    *)
(* and stats its AllocatorStats.                                           *)
(***************************************************************************)
PoolMAGIC == << 222, 192, 173, 222 >>   \* 0xDEADC0DE, low byte first
PoolHeaderSize == 32
PoolOffSize == 8
PoolOffPadding == 16
PoolOffIsFree == 24
PoolFooterSize == 24
PoolFootOffSize == 8
PoolFootOffIsFree == 16
PoolOffPrev == 32
PoolOffNext == 40
PoolFreeBlockSize == 48

PoolIsMagic(m, a) == \A i \in 1..4 : Rd(m, a + i - 1) = PoolMAGIC[i]

inPool(ar, p) == p >= ar.pool_ /\ p < ar.pool_ + ar.poolSize_

\* ThreadsafeCoalescingAllocator::getFooter: the footer's address or nullptr
poolGetFooter(m, ar, h) ==
    IF h = 0 \/ ~PoolIsMagic(m, h) THEN 0
    ELSE LET footAddr == h + RdU64(m, h + PoolOffSize) - PoolFooterSize
         IN IF inPool(ar, footAddr) THEN footAddr ELSE 0

\* signature, size and isFree of a footer
PoolWrFooter(m, foot, size, free) ==
    WrBool(WrU64(Store(m, foot, PoolMAGIC), foot + PoolFootOffSize, size),
           foot + PoolFootOffIsFree, free)

isValidFreeBlock(m, ar, fb) ==
    /\ inPool(ar, fb)
    /\ PoolIsMagic(m, fb)
    /\ RdBool(m, fb + PoolOffIsFree)
    /\ poolGetFooter(m, ar, fb) # 0
    /\ PoolIsMagic(m, poolGetFooter(m, ar, fb))
    /\ RdBool(m, poolGetFooter(m, ar, fb) + PoolFootOffIsFree)
    /\ RdU64(m, poolGetFooter(m, ar, fb) + PoolFootOffSize) = RdU64(m, fb + PoolOffSize)

isValidAllocatedHeader(m, ar, hdr) ==
    /\ inPool(ar, hdr)
    /\ PoolIsMagic(m, hdr)
    /\ ~RdBool(m, hdr + PoolOffIsFree)
    /\ RdU64(m, hdr + PoolOffSize) <= ar.poolSize_

getNextHeader(m, ar, h) ==
    IF h = 0 \/ ~PoolIsMagic(m, h) THEN 0
    ELSE LET nextAddr == h + RdU64(m, h + PoolOffSize)
         IN IF ~inPool(ar, nextAddr) THEN 0
            ELSE IF ~PoolIsMagic(m, nextAddr) THEN 0
            ELSE nextAddr

getPrevHeader(m, ar, h) ==
    IF h = 0 \/ ~PoolIsMagic(m, h) THEN 0
    ELSE IF h <= ar.pool_ THEN 0
    ELSE LET footAddr == h - PoolFooterSize
             prevAddr == footAddr - (RdU64(m, footAddr + PoolFootOffSize) - PoolFooterSize)
         IN IF ~inPool(ar, footAddr) THEN 0
            ELSE IF ~PoolIsMagic(m, footAddr) THEN 0
            ELSE IF RdU64(m, footAddr + PoolFootOffSize) > ar.poolSize_ THEN 0
            ELSE IF ~inPool(ar, prevAddr) THEN 0
            ELSE IF ~PoolIsMagic(m, prevAddr) THEN 0
            ELSE prevAddr

\* b->prev = b->next = nullptr
PoolClearLinks(m, b) == WrU64(WrU64(m, b + PoolOffPrev, 0), b + PoolOffNext, 0)

\* removeFromList(b); st = [mem, head, used, hang], head being freeListHead_
\* and used stats_.currentUsedBytes
removeFromList(st, b) ==
    IF b = 0 \/ ~RdBool(st.mem, b + PoolOffIsFree) THEN st
    ELSE IF b = st.head
    THEN LET nh == RdU64(st.mem, b + PoolOffNext)
             m1 == IF nh # 0 THEN WrU64(st.mem, nh + PoolOffPrev, 0) ELSE st.mem
         IN [st EXCEPT !.mem = PoolClearLinks(m1, b), !.head = nh]
    ELSE LET pv == RdU64(st.mem, b + PoolOffPrev)
             nx == RdU64(st.mem, b + PoolOffNext)
             m1 == IF pv # 0 THEN WrU64(st.mem, pv + PoolOffNext, nx) ELSE st.mem
             m2 == IF nx # 0 THEN WrU64(m1, nx + PoolOffPrev, pv) ELSE m1
         IN [st EXCEPT !.mem = PoolClearLinks(m2, b)]

\* the while loop of insertBlockOrdered: the block after which b is linked,
\* or -1 when the loop does not end
RECURSIVE InsertCursor(_, _, _, _, _)
InsertCursor(m, ar, cur, b, fuel) ==
    IF fuel = 0 THEN -1
    ELSE LET nx == RdU64(m, cur + PoolOffNext)
         IN IF nx # 0 /\ nx < b
            THEN IF ~inPool(ar, nx) THEN cur
                 ELSE InsertCursor(m, ar, nx, b, fuel - 1)
            ELSE cur

\* insertBlockOrdered(b)
insertBlockOrdered(st, ar, b) ==
    IF b = 0 \/ ~RdBool(st.mem, b + PoolOffIsFree) \/ ~PoolIsMagic(st.mem, b) THEN st
    ELSE IF ~inPool(ar, b) THEN st
    ELSE IF st.head = 0
    THEN [st EXCEPT !.mem = PoolClearLinks(st.mem, b), !.head = b]
    ELSE IF b < st.head
    THEN LET m1 == WrU64(st.mem, b + PoolOffNext, st.head)
             m2 == WrU64(m1, b + PoolOffPrev, 0)
             m3 == WrU64(m2, st.head + PoolOffPrev, b)
         IN [st EXCEPT !.mem = m3, !.head = b]
    ELSE LET cur == InsertCursor(st.mem, ar, st.head, b, MaxWalk)
         IN IF cur < 0 THEN [st EXCEPT !.hang = TRUE]
            ELSE LET m1 == WrU64(st.mem, b + PoolOffNext, RdU64(st.mem, cur + PoolOffNext))
                     m2 == WrU64(m1, b + PoolOffPrev, cur)
                     nx == RdU64(m2, cur + PoolOffNext)
                     m3 == IF nx # 0 /\ inPool(ar, nx)
                           THEN WrU64(m2, nx + PoolOffPrev, b) ELSE m2
                 IN [st EXCEPT !.mem = WrU64(m3, cur + PoolOffNext, b)]

\* the forward half of coalesce: the next block, if free, is absorbed
PoolMergeNext(st, ar, block) ==
    LET nxt == getNextHeader(st.mem, ar, block)
    IN IF nxt # 0 /\ RdBool(st.mem, nxt + PoolOffIsFree) /\ isValidFreeBlock(st.mem, ar, nxt)
       THEN LET r == removeFromList(st, nxt)
                sum == RdU64(r.mem, block + PoolOffSize) + RdU64(r.mem, nxt + PoolOffSize)
                m1 == WrU64(r.mem, block + PoolOffSize, sum)
                foot == poolGetFooter(m1, ar, block)
            IN [r EXCEPT !.mem = IF foot # 0 THEN PoolWrFooter(m1, foot, sum, TRUE) ELSE m1,
                         !.used = @ - RdU64(r.mem, nxt + PoolOffSize)]
       ELSE st

\* the backward half of coalesce: the block is absorbed by the previous one,
\* if free; blk is the block that coalesce goes on with
PoolMergePrev(st, ar, block) ==
    LET prv == getPrevHeader(st.mem, ar, block)
    IN IF prv # 0 /\ RdBool(st.mem, prv + PoolOffIsFree) /\ isValidFreeBlock(st.mem, ar, prv)
       THEN LET r == removeFromList(st, prv)
                sum == RdU64(r.mem, prv + PoolOffSize) + RdU64(r.mem, block + PoolOffSize)
                m1 == WrU64(r.mem, prv + PoolOffSize, sum)
                foot == poolGetFooter(m1, ar, prv)
            IN [st |-> [r EXCEPT !.mem = IF foot # 0 THEN PoolWrFooter(m1, foot, sum, TRUE)
                                        ELSE m1,
                                 !.used = @ - RdU64(r.mem, block + PoolOffSize)],
                blk |-> prv]
       ELSE [st |-> st, blk |-> block]

\* coalesce(block)
coalesce(st, ar, block) ==
    IF ~isValidFreeBlock(st.mem, ar, block) THEN st
    ELSE LET r == PoolMergePrev(PoolMergeNext(st, ar, block), ar, block)
         IN insertBlockOrdered(r.st, ar, r.blk)

\* the part of useBlock that carves the leftover, from size_t leftover on
PoolCarve(st, ar, blk, totalNeeded, oldSize, usedFooter) ==
    LET size == RdU64(st.mem, blk + PoolOffSize)
        leftover == IF oldSize > totalNeeded THEN oldSize - totalNeeded ELSE 0
        leftoverAddr == blk + totalNeeded
        whole == [st EXCEPT !.mem = PoolWrFooter(st.mem, usedFooter, size, FALSE)]
    IN IF leftover < PoolFreeBlockSize + PoolFooterSize THEN whole
       ELSE IF ~inPool(ar, leftoverAddr) \/ ~inPool(ar, leftoverAddr + leftover - 1) THEN whole
       ELSE LET m1 == WrBool(WrU64(WrU64(Store(st.mem, leftoverAddr, PoolMAGIC),
                                         leftoverAddr + PoolOffSize, leftover),
                                   leftoverAddr + PoolOffPadding, 0),
                             leftoverAddr + PoolOffIsFree, TRUE)
                leftoverFoot == poolGetFooter(m1, ar, leftoverAddr)
            IN IF leftoverFoot = 0
               THEN [st EXCEPT !.mem = PoolWrFooter(m1, usedFooter, size, FALSE)]
               ELSE LET m2 == PoolClearLinks(PoolWrFooter(m1, leftoverFoot, leftover, TRUE),
                                             leftoverAddr)
                        r == insertBlockOrdered([st EXCEPT !.mem = m2], ar, leftoverAddr)
                        m3 == WrU64(r.mem, blk + PoolOffSize, totalNeeded)
                        foot == poolGetFooter(m3, ar, blk)
                    IN [r EXCEPT !.mem = IF foot # 0
                                         THEN PoolWrFooter(m3, foot, totalNeeded, FALSE)
                                         ELSE m3]

\* useBlock(blk, totalNeeded): the state after it and the pointer it returns
useBlock(st, ar, blk, totalNeeded) ==
    LET r == removeFromList(st, blk)
        oldSize == RdU64(r.mem, blk + PoolOffSize)
        m1 == WrBool(r.mem, blk + PoolOffIsFree, FALSE)
        usedFooter == poolGetFooter(m1, ar, blk)
    IN IF usedFooter = 0 THEN [st |-> [r EXCEPT !.mem = m1], ptr |-> 0]
       ELSE LET c == PoolCarve([r EXCEPT !.mem = m1], ar, blk, totalNeeded, oldSize,
                               usedFooter)
                m2 == PoolClearLinks(c.mem, blk)
            IN [st |-> [c EXCEPT !.mem = m2, !.used = @ + RdU64(m2, blk + PoolOffSize)],
                ptr |-> blk + PoolHeaderSize + RdU64(m2, blk + PoolOffPadding)]

\* the while loop of allocate: the block it hands to useBlock and the
\* totalNeeded it computed, blk = 0 when the list ends without a fit, and
\* hang when the loop does not end
RECURSIVE PoolSearch(_, _, _, _, _, _)
PoolSearch(m, ar, blk, size, alignment, fuel) ==
    IF blk = 0 THEN [blk |-> 0, totalNeeded |-> 0, hang |-> FALSE]
    ELSE IF fuel = 0 THEN [blk |-> 0, totalNeeded |-> 0, hang |-> TRUE]
    ELSE LET nxt == RdU64(m, blk + PoolOffNext)
             blkSize == RdU64(m, blk + PoolOffSize)
             overhead == PoolHeaderSize + PoolFooterSize
             usable == IF blkSize > overhead THEN blkSize - overhead ELSE 0
             padding == StdAlign(alignment, size, blk + PoolHeaderSize, usable)
             needed == overhead + padding + size
             totalNeeded == IF needed < PoolFreeBlockSize THEN PoolFreeBlockSize ELSE needed
         IN IF ~isValidFreeBlock(m, ar, blk)
            THEN PoolSearch(m, ar, nxt, size, alignment, fuel - 1)
            ELSE IF padding >= 0 /\ blkSize >= totalNeeded
            THEN [blk |-> blk, totalNeeded |-> totalNeeded, hang |-> FALSE]
            ELSE PoolSearch(m, ar, nxt, size, alignment, fuel - 1)

\* ThreadsafeCoalescingAllocator::allocate(size, alignment), as a function of
\* the object: the state after the call and the pointer returned
poolAllocate(m, ar, used, size0, alignment) ==
    LET size == IF size0 = 0 THEN 1 ELSE size0
        st == [mem |-> m, head |-> ar.freeListHead_, used |-> used, hang |-> FALSE]
        f == PoolSearch(m, ar, ar.freeListHead_, size, alignment, MaxWalk)
    IN IF f.hang THEN [st |-> [st EXCEPT !.hang = TRUE], ptr |-> 0]
       ELSE IF f.blk = 0 THEN [st |-> st, ptr |-> 0]
       ELSE useBlock(st, ar, f.blk, f.totalNeeded)

\* ThreadsafeCoalescingAllocator::deallocate(ptr) for ptr not null, after
\* totalDeallocCalls++
poolDeallocate(m, ar, used, ptr) ==
    LET st == [mem |-> m, head |-> ar.freeListHead_, used |-> used, hang |-> FALSE]
        hdr == ptr - PoolHeaderSize
        m1 == WrBool(m, hdr + PoolOffIsFree, TRUE)
        st1 == [st EXCEPT !.mem = m1, !.used = @ - RdU64(m, hdr + PoolOffSize)]
        foot == poolGetFooter(m1, ar, hdr)
    IN IF ~inPool(ar, ptr) THEN st
       ELSE IF ~isValidAllocatedHeader(m, ar, hdr) THEN st
       ELSE IF foot = 0 \/ ~PoolIsMagic(m1, foot) THEN st1
       ELSE LET r == insertBlockOrdered(
                        [st1 EXCEPT !.mem = WrBool(m1, foot + PoolFootOffIsFree, TRUE)],
                        ar, hdr)
            IN IF r.hang THEN r ELSE coalesce(r, ar, hdr)

\* allocate(size), the whole call under the mutex; a loop that does not end
\* leaves the caller inside the call with the mutex held
PoolAllocate(size) ==
    /\ pc[1] = "idle"
    /\ calls < MaxPoolCalls
    /\ \E r \in {poolAllocate(mem, arena, stats.currentUsedBytes, size, MaxAlign)} :
          /\ mem' = r.st.mem
          /\ arena' = [arena EXCEPT !.freeListHead_ = r.st.head]
          /\ stats' = [stats EXCEPT
                         !.totalAllocCalls = @ + 1,
                         !.currentUsedBytes = r.st.used,
                         !.peakUsedBytes = IF r.ptr # 0 /\ UGt(r.st.used, @)
                                           THEN r.st.used ELSE @]
          /\ pc' = IF r.st.hang THEN [pc EXCEPT ![1] = "hang"] ELSE pc
          /\ mtx' = IF r.st.hang THEN [mtx EXCEPT ![1] = 1] ELSE mtx
          /\ live' = IF r.ptr = 0 THEN live
                     ELSE live \cup {[ptr |-> r.ptr, size |-> size, t |-> 1, id |-> calls]}
          /\ seen' = Seen(r.st.used, Call("allocate", 1, r.ptr, size, "pool", FALSE))
    /\ calls' = calls + 1
    /\ UNCHANGED << arenas_, mgr, bg, tld, loc, nchunks, enableReclamation >>

\* deallocate(ptr), the whole call under the mutex, on a pointer the caller holds
PoolDeallocate(l) ==
    /\ pc[1] = "idle"
    /\ l \in live
    /\ \E r \in {poolDeallocate(mem, arena, stats.currentUsedBytes, l.ptr)} :
          /\ mem' = r.mem
          /\ arena' = [arena EXCEPT !.freeListHead_ = r.head]
          /\ stats' = [stats EXCEPT !.totalDeallocCalls = @ + 1,
                                    !.currentUsedBytes = r.used]
          /\ pc' = IF r.hang THEN [pc EXCEPT ![1] = "hang"] ELSE pc
          /\ mtx' = IF r.hang THEN [mtx EXCEPT ![1] = 1] ELSE mtx
          /\ seen' = Seen(r.used, Call("free", 1, l.ptr, l.size, "pool", FALSE))
    /\ live' = live \ {l}
    /\ UNCHANGED << arenas_, mgr, bg, tld, loc, nchunks, enableReclamation, calls >>

\* ThreadsafeCoalescingAllocator(poolSize): one free block over the zeroed pool
PoolCtor(base, poolSize) ==
    LET m1 == WrBool(WrU64(WrU64(Store(<< >>, base, PoolMAGIC), base + PoolOffSize, poolSize),
                           base + PoolOffPadding, 0),
                     base + PoolOffIsFree, TRUE)
        ar == [pool_ |-> base, poolSize_ |-> poolSize, freeListHead_ |-> base]
        foot == poolGetFooter(m1, ar, base)
    IN [mem |-> PoolClearLinks(IF foot # 0 THEN PoolWrFooter(m1, foot, poolSize, TRUE) ELSE m1,
                               base),
        ar |-> ar]

InitPool ==
    /\ mem = PoolCtor(RegionBase(1), PoolSize).mem
    /\ arena = PoolCtor(RegionBase(1), PoolSize).ar
    /\ mtx = [a \in ArenaIds |-> 0]
    /\ arenas_ = << >>
    /\ mgr = ManagerCtor(FALSE).mgr
    /\ bg = ManagerCtor(FALSE).bg
    /\ tld = [t \in Threads |-> NoTld]
    /\ stats = [totalAllocCalls |-> 0, totalDeallocCalls |-> 0,
                currentUsedBytes |-> 0, peakUsedBytes |-> 0]
    /\ pc = [t \in Threads |-> "idle"]
    /\ loc = [t \in Threads |-> NoLocals]
    /\ nchunks = 0
    /\ enableReclamation = FALSE
    /\ live = {}
    /\ calls = 0
    /\ seen = [maxCurrent |-> 0, call |-> NoCall]

NextPool ==
    \/ \E size \in PoolSizes : PoolAllocate(size)
    \/ \E l \in live : PoolDeallocate(l)

SpecPool == InitPool /\ [][NextPool]_vars

(***************************************************************************)
(* Properties                                                              *)
(***************************************************************************)
\* pointers the callers hold, and those an allocate in flight is about to return
InFlight == {[ptr |-> loc[t].ret, size |-> loc[t].size, t |-> t, id |-> loc[t].id] :
                t \in {u \in Threads : pc[u] \in {"load_c", "load_p", "cas"}}}
Held == live \cup InFlight

\* the blocks of an arena in address order, following header.totalSize
RECURSIVE BlocksFrom(_, _, _, _)
BlocksFrom(m, a, end, fuel) ==
    IF a >= end \/ fuel = 0 THEN << >>
    ELSE << a >> \o BlocksFrom(m, a + RdU64(m, a + OffTotalSize), end, fuel - 1)

Blocks(m, ar) == BlocksFrom(m, ar.memory_, ar.memory_ + ar.arenaSize_, MaxWalk)

\* the blocks of a bin's list from its head, following SmallFreeBlock::next
RECURSIVE BinListFrom(_, _, _)
BinListFrom(m, blk, fuel) ==
    IF blk = 0 \/ fuel = 0 THEN << >>
    ELSE << blk >> \o BinListFrom(m, RdU64(m, blk + SmallOffNext), fuel - 1)

BinList(m, td, bin) == BinListFrom(m, td.freeList_[bin], MaxWalk)

\* C1: once every pointer that allocate returned has been freed and no call
\* is in flight, currentUsedBytes is 0.
C1_RoundTrip == (AllIdle /\ live = {}) => stats.currentUsedBytes = 0

\* C2: no two address-adjacent blocks of the arena are both free.
C2_NoAdjacentFree ==
    \A i \in 1..(Len(Blocks(mem, arena[1])) - 1) :
        ~(/\ RdBool(mem, Blocks(mem, arena[1])[i] + OffIsFree)
          /\ RdBool(mem, Blocks(mem, arena[1])[i + 1] + OffIsFree))

\* C3: free of a pointer returned for a size above 256 is disposed by the
\* arena, free of a pointer returned for a size up to 256 by the small cache.
C3_FreeRouting ==
    seen.call.op = "free" =>
        IF seen.call.size > SmallLimit
        THEN seen.call.path = "arena"
        ELSE seen.call.path = "small"

\* C4: no allocate or free call operates on an arena that the reclaimer has
\* destroyed.
C4_NoUseAfterDestroy == ~seen.call.dead

\* C5: any two pointers held at the same time have disjoint payload ranges
\* [p, p + size).
C5_DistinctRegions ==
    \A l1, l2 \in Held :
        l1 # l2 => (l1.ptr + l1.size <= l2.ptr \/ l2.ptr + l2.size <= l1.ptr)

\* C5 witness: a small request served from a block inside an arena while a
\* large block of that arena is held too.
C5_Witness ==
    \E l1, l2 \in live :
        /\ l1.size <= SmallLimit /\ l1.ptr < ChunkOrigin
        /\ l2.size > SmallLimit /\ l2.ptr < ChunkOrigin
        /\ l1.t = l2.t

\* C6: with reclamation enabled, once every pointer is freed and the threads
\* make no further call, the manager's arena count eventually becomes 0.
Stopped == AllIdle /\ live = {} /\ calls = MaxCalls
C6_ReclaimLiveness == (enableReclamation /\ Stopped) ~> (Len(arenas_) = 0)

\* C7: with reclamation disabled no step removes an arena from the manager's
\* sequence or destroys one.
C7_NoShrink ==
    [][~enableReclamation =>
          /\ Len(arenas_') >= Len(arenas_)
          /\ SubSeq(arenas_', 1, Len(arenas_)) = arenas_
          /\ \A a \in ArenaIds : arena[a].state = "live" => arena'[a].state = "live"]_vars

\* C7 witness: reclamation is disabled and the manager holds a fully idle arena.
C7_Witness ==
    /\ ~enableReclamation
    /\ \E i \in 1..Len(arenas_) : arena[arenas_[i]].usedBytes_ = 0
    /\ calls = MaxCalls

\* C8: used_bytes is 0 exactly when the arena is one free block of the
\* region's size.
C8_FullyIdleIffOneBlock ==
    (arena[1].usedBytes_ = 0) <=>
        /\ Blocks(mem, arena[1]) = << arena[1].memory_ >>
        /\ RdBool(mem, arena[1].memory_ + OffIsFree)
        /\ RdU64(mem, arena[1].memory_ + OffTotalSize) = arena[1].arenaSize_

\* C9: peakUsedBytes >= currentUsedBytes in every state.
C9_PeakGeCurrent == ~UGt(stats.currentUsedBytes, stats.peakUsedBytes)

\* C10: when no call is in flight, peakUsedBytes is at least every value that
\* currentUsedBytes has held (stated for the runs in which currentUsedBytes
\* never wrapped below zero, so that what fails is the peak update itself).
C10_PeakIsMax ==
    (AllIdle /\ seen.maxCurrent >= 0) => stats.peakUsedBytes >= seen.maxCurrent

\* C11: a deallocate that the arena rejects (the header located for the
\* pointer has no magic, or is already marked free) changes no statistics
\* counter, no arena field and no byte of the region.
C11_InvalidFreeNoOp ==
    [][(seen'.call.op = "free" /\ seen'.call.path = "arena_reject")
          => (stats' = stats /\ arena' = arena /\ mem' = mem)]_vars

\* C12: a second free of a pointer obtained for a size up to 256, with no
\* allocation in between, changes no statistics counter and no bin list.
C12_SmallDoubleFreeDropped ==
    [][((\E t \in Threads : DeallocateAgain(t)) /\ seen.call.size <= SmallLimit)
          => (stats' = stats /\ tld' = tld)]_vars

\* C13: an Arena::allocate that finds no fitting block and returns nullptr
\* leaves the free list, every header and footer, usedBytes_ and the four
\* statistics counters as they were.
C13_FailureAtomicity ==
    [][(seen'.call.op = "allocate" /\ seen'.call.ptr = 0)
          => (stats' = stats /\ arena' = arena /\ mem' = mem)]_vars

\* C14: once every pointer obtained has been freed and no call is in
\* flight, totalAllocCalls equals totalFreeCalls.
C14_CallCountBalance ==
    (AllIdle /\ live = {}) => stats.totalAllocCalls = stats.totalFreeCalls

\* C15: on each thread a bin's list is a stack: a free accepted by the small
\* cache puts the block at the head of its bin's list, an allocate of a size
\* whose bin is not empty returns the block at the head (the most recently
\* freed one) and leaves the rest, and no step changes a list otherwise.
C15_SmallBinLifo ==
    [][\A t \in Threads :
          /\ \A size \in Sizes :
                (/\ Allocate(t, size)
                 /\ size <= SmallLimit
                 /\ BinList(mem, tld[t], findBin(size)) # << >>)
                => /\ seen'.call.ptr = Head(BinList(mem, tld[t], findBin(size))) + SmallHeaderSize
                   /\ BinList(mem', tld'[t], findBin(size))
                        = Tail(BinList(mem, tld[t], findBin(size)))
          /\ \A l \in live :
                (Deallocate(t, l) /\ seen'.call.path = "small")
                => BinList(mem', tld'[t], RdBinIndex(mem, l.ptr - SmallHeaderSize))
                     = << l.ptr - SmallHeaderSize >>
                       \o BinList(mem, tld[t], RdBinIndex(mem, l.ptr - SmallHeaderSize))
          /\ \A bin \in 0..(SMALL_BIN_COUNT - 1) :
                \/ BinList(mem', tld'[t], bin) = BinList(mem, tld[t], bin)
                \/ /\ seen'.call.t = t
                   /\ seen'.call.op = "free"
                   /\ BinList(mem', tld'[t], bin)
                        = << seen'.call.ptr - SmallHeaderSize >> \o BinList(mem, tld[t], bin)
                \/ /\ seen'.call.t = t
                   /\ seen'.call.op = "allocate"
                   /\ BinList(mem, tld[t], bin)
                        = << seen'.call.ptr - SmallHeaderSize >> \o BinList(mem', tld'[t], bin)
      ]_vars

\* C15 witness: two blocks of one bin were freed on a thread and an allocate
\* has just taken one of them back while the other is still in the list.
C15_Witness ==
    /\ seen.call.op = "allocate"
    /\ seen.call.path = "pop"
    /\ seen.call.ptr >= ChunkOrigin
    /\ BinList(mem, tld[seen.call.t], findBin(seen.call.size)) # << >>

\* C16: every pointer returned by allocate, from the small cache or from an
\* arena, is a multiple of alignof(std::max_align_t).
C16_Alignment == \A l \in Held : l.ptr % MaxAlign = 0

\* C16 witness: a pointer returned by an arena from a block that does not
\* start at a multiple of the alignment, so that padding had to be inserted.
C16_Witness ==
    \E l \in live :
        /\ l.size > SmallLimit
        /\ ~IsMagic(mem, l.ptr - HeaderSize)
        /\ \E pad \in 1..(MaxAlign - 1) : IsMagic(mem, l.ptr - HeaderSize - pad)

\* the blocks of the live arenas, as records of their start and totalSize
ArenaBlocks ==
    UNION {{[start |-> Blocks(mem, arena[a])[i],
             total |-> RdU64(mem, Blocks(mem, arena[a])[i] + OffTotalSize),
             free |-> RdBool(mem, Blocks(mem, arena[a])[i] + OffIsFree)] :
               i \in 1..Len(Blocks(mem, arena[a]))} :
           a \in {x \in ArenaIds : arena[x].state = "live"}}

\* the blocks linked in the bin lists of the threads
BinBlocks ==
    UNION {{BinList(mem, tld[t], bin)[i] : i \in 1..Len(BinList(mem, tld[t], bin))} :
           t \in Threads, bin \in 0..(SMALL_BIN_COUNT - 1)}

\* the payload [ptr, ptr + size) lies between the header and the footer of an
\* allocated arena block, or in a small chunk behind its header and within
\* the chunk's bin size
InsideItsBlock(l) ==
    IF l.ptr < ChunkOrigin
    THEN \E b \in ArenaBlocks :
            /\ ~b.free
            /\ b.start + HeaderSize <= l.ptr
            /\ l.ptr + l.size <= b.start + b.total - FooterSize
    ELSE /\ RdBinIndex(mem, l.ptr - SmallHeaderSize) >= 0
         /\ l.size <= SMALL_BIN_SIZE[RdBinIndex(mem, l.ptr - SmallHeaderSize) + 1]

\* C17: the payload of every held pointer lies inside the block carved for
\* it, clear of every header and footer (its own footer included), is not a
\* block linked in a free list, and overlaps no other held payload.
C17_WritablePayload ==
    \A l \in Held :
        /\ InsideItsBlock(l)
        /\ (l.ptr - SmallHeaderSize) \notin BinBlocks
        /\ \A b \in ArenaBlocks :
              b.free => (l.ptr + l.size <= b.start \/ b.start + FreeBlockSize <= l.ptr)
        /\ \A k \in Held :
              k # l => (l.ptr + l.size <= k.ptr \/ k.ptr + k.size <= l.ptr)

\* C17 witness: a held arena payload that ends exactly where its block's
\* footer begins, next to another held block.
C17_Witness ==
    \E l \in live, b \in ArenaBlocks :
        /\ b.start + HeaderSize <= l.ptr
        /\ l.ptr + l.size = b.start + b.total - FooterSize
        /\ \E k \in live : k.ptr = b.start + b.total + HeaderSize

\* C18: no arena's region is released more than once; a region is released
\* exactly when its arena is destroyed, by the reclaimer or by the manager's
\* destructor; after the destructor every arena created has been released.
C18_ReleasedOnce ==
    \A a \in ArenaIds :
        /\ arena[a].released <= 1
        /\ (arena[a].released = 1) <=> (arena[a].state = "destroyed")
        /\ (mgr.dtor = "done" /\ arena[a].state # "none") => arena[a].released = 1

\* C18 witness: the destructor has finished after the reclaimer destroyed one
\* arena and the destructor itself another.
C18_Witness ==
    /\ mgr.dtor = "done"
    /\ Len(arenas_) = 1
    /\ \A a \in ArenaIds : arena[a].state = "destroyed"

\* C19: once the manager's destructor has begun it completes: the reclaimer
\* has exited, the join has returned and every arena still in the sequence
\* is destroyed.
ShutdownComplete ==
    /\ mgr.dtor = "done"
    /\ bg.pc \in {"none", "done"}
    /\ \A i \in 1..Len(arenas_) : arena[arenas_[i]].state = "destroyed"
C19_ShutdownTerminates == (mgr.dtor # "none") ~> ShutdownComplete

\* C19 witness: shutdown completed with reclamation on, the destructor having
\* destroyed an arena that the reclaimer had left in the sequence.
C19_Witness ==
    /\ ShutdownComplete
    /\ enableReclamation
    /\ bg.pc = "done"
    /\ Len(arenas_) > 0

\* C20: no step lowers totalAllocCalls, totalFreeCalls or peakUsedBytes
\* (peakUsedBytes compared as the unsigned value it is).
C20_CountersMonotonic ==
    [][/\ stats'.totalAllocCalls >= stats.totalAllocCalls
       /\ stats'.totalFreeCalls >= stats.totalFreeCalls
       /\ ~UGt(stats.peakUsedBytes, stats'.peakUsedBytes)]_vars

\* C20 witness: a thread is about to execute a compare-and-swap that fails,
\* because another thread raised peakUsedBytes after this one loaded it.
C20_Witness ==
    \E t \in Threads :
        /\ pc[t] = "cas"
        /\ loc[t].p # stats.peakUsedBytes
        /\ UGt(loc[t].c, stats.peakUsedBytes)

\* C21: allocate(0) is the same call as allocate(1): every step that
\* allocate(0) can take is a step of allocate(1) and conversely; the call
\* returns a pointer, which comes from bin 0 (a block popped from bin 0's list
\* or a new chunk whose header says bin 0); and the pointers held for
\* requests of 0 bytes (recorded, after the promotion, with size 1) are
\* pairwise distinct.
C21_ZeroSize ==
    [][/\ \A t \in Threads :
             /\ Allocate(t, 0) <=> Allocate(t, 1)
             /\ Allocate(t, 0) =>
                   /\ seen'.call.ptr # 0
                   /\ seen'.call.size = 1
                   /\ seen'.call.path \in {"chunk", "pop"}
                   /\ RdBinIndex(mem', seen'.call.ptr - SmallHeaderSize) = 0
                   /\ seen'.call.path = "pop" =>
                         seen'.call.ptr - SmallHeaderSize = tld[t].freeList_[0]
       /\ \A l1, l2 \in {l \in Held' : l.size = 1} : l1 # l2 => l1.ptr # l2.ptr
      ]_vars

\* C21 witness: two pointers obtained for requests of 0 bytes are held at
\* the same time, one of them popped from bin 0's list.
C21_Witness ==
    /\ seen.call.op = "allocate"
    /\ seen.call.size = 1
    /\ seen.call.path = "pop"
    /\ Cardinality({l \in live : l.size = 1}) >= 2

\* the footer of the block at hdr carries the magic, the header's totalSize
\* and the header's isFree, and the header carries the magic
TagsAgree(m, hdr) ==
    /\ IsMagic(m, hdr)
    /\ IsMagic(m, getFooter(m, hdr))
    /\ RdU64(m, getFooter(m, hdr) + FootOffTotalSize) = RdU64(m, hdr + OffTotalSize)
    /\ RdBool(m, getFooter(m, hdr) + FootOffIsFree) = RdBool(m, hdr + OffIsFree)

\* C22: in every state of the arena every block's footer agrees with its
\* header: same totalSize, same isFree, and both carry the magic; this
\* includes the state after a deallocate that merged with neither neighbour.
C22_BoundaryTags ==
    \A i \in 1..Len(Blocks(mem, arena[1])) : TagsAgree(mem, Blocks(mem, arena[1])[i])

\* the allocated block of the arena whose payload area holds the pointer
BlockOf(ptr) ==
    {b \in ArenaBlocks : ~b.free /\ b.start + HeaderSize <= ptr
                                  /\ ptr < b.start + b.total - FooterSize}

\* C23: deallocate of a pointer that Arena::allocate returned and the caller
\* still holds, whatever padding lies between the block's header and the
\* pointer, is accepted, marks that block's header free and takes the
\* block's totalSize (what the allocate added) off usedBytes_ and off
\* currentUsedBytes.
C23_ArenaRoundTrip ==
    [][\A l \in live :
          DirectDeallocate(l) =>
             \E b \in BlockOf(l.ptr) :
                /\ seen'.call.path = "arena"
                /\ RdBool(mem', b.start + OffIsFree)
                /\ arena'[1].usedBytes_ = arena[1].usedBytes_ - b.total
                /\ stats'.currentUsedBytes = stats.currentUsedBytes - b.total
      ]_vars

\* C24: the reclaimer destroys an arena only when no thread is inside that
\* arena's critical section and no block of it is allocated.
C24_ReclaimAtomic ==
    [][\A a \in ArenaIds :
          (arena[a].state = "live" /\ arena'[a].state = "destroyed") =>
             /\ mtx[a] = 0
             /\ \A i \in 1..Len(Blocks(mem, arena[a])) :
                   RdBool(mem, Blocks(mem, arena[a])[i] + OffIsFree)
      ]_vars

\* C25: an allocate served by the small cache from a new chunk adds 1 to
\* totalAllocCalls and sizeof(SmallBlockHeader) + SMALL_BIN_SIZE[bin] to
\* currentUsedBytes and changes no other counter in that step; one served by
\* popping a cached block changes no counter; every free that reaches
\* freeSmall and reads a bin index inside the table adds 1 to totalFreeCalls
\* and subtracts sizeof(SmallBlockHeader) + SMALL_BIN_SIZE[bin] from
\* currentUsedBytes, bin being the index read.
C25_SmallCacheStats ==
    [][\A t \in Threads :
          /\ \A size \in Sizes :
                (Allocate(t, size) /\ size <= SmallLimit) =>
                   IF tld[t].freeList_[findBin(size)] = 0
                   THEN stats' = [stats EXCEPT
                                    !.totalAllocCalls = @ + 1,
                                    !.currentUsedBytes =
                                        @ + SmallHeaderSize + SMALL_BIN_SIZE[findBin(size) + 1]]
                   ELSE stats' = stats
          /\ \A l \in live :
                (/\ Deallocate(t, l)
                 /\ ~MarkerIsMagic(mem, l.ptr)
                 /\ RdBinIndex(mem, l.ptr - SmallHeaderSize) >= 0) =>
                   stats' = [stats EXCEPT
                               !.totalFreeCalls = @ + 1,
                               !.currentUsedBytes =
                                   @ - SmallHeaderSize
                                     - SMALL_BIN_SIZE[RdBinIndex(mem, l.ptr - SmallHeaderSize) + 1]]
      ]_vars

\* C25 witness: a chunk was provisioned, freed and popped again: one
\* allocation and one free are counted, nothing is counted for the pop and
\* the popped block is held.
C25_Witness ==
    /\ seen.call.op = "allocate"
    /\ seen.call.path = "pop"
    /\ stats.totalAllocCalls = 1
    /\ stats.totalFreeCalls = 1
    /\ stats.currentUsedBytes = 0
    /\ \E l \in live : l.ptr = seen.call.ptr

\* the sum of header.totalSize over the blocks from index i on whose header
\* says allocated
RECURSIVE AllocatedFrom(_, _, _)
AllocatedFrom(m, blocks, i) ==
    IF i > Len(blocks) THEN 0
    ELSE (IF RdBool(m, blocks[i] + OffIsFree) THEN 0 ELSE RdU64(m, blocks[i] + OffTotalSize))
         + AllocatedFrom(m, blocks, i + 1)

AllocatedBytes(m, ar) == AllocatedFrom(m, Blocks(m, ar), 1)

\* C26: in every state of the arena usedBytes_ equals the sum of totalSize
\* over the blocks whose header says allocated.
C26_ArenaAccounting == arena[1].usedBytes_ = AllocatedBytes(mem, arena[1])

\* C26 witness: a deallocate has just been accepted and left a free block
\* in front of a block that is still allocated, with a second allocated
\* block elsewhere in the arena.
C26_Witness ==
    /\ seen.call.op = "free"
    /\ seen.call.path = "arena"
    /\ \E i \in 1..(Len(Blocks(mem, arena[1])) - 1) :
          /\ RdBool(mem, Blocks(mem, arena[1])[i] + OffIsFree)
          /\ ~RdBool(mem, Blocks(mem, arena[1])[i + 1] + OffIsFree)
    /\ Cardinality({i \in 1..Len(Blocks(mem, arena[1])) :
                       ~RdBool(mem, Blocks(mem, arena[1])[i] + OffIsFree)}) >= 2

\* the blocks linked from firstFree_, following FreeBlock::next
RECURSIVE FreeListFrom(_, _, _)
FreeListFrom(m, blk, fuel) ==
    IF blk = 0 \/ fuel = 0 THEN << >>
    ELSE << blk >> \o FreeListFrom(m, RdU64(m, blk + OffNext), fuel - 1)

FreeList(m, ar) == FreeListFrom(m, ar.firstFree_, MaxWalk)

\* C27: between operations the blocks reachable from firstFree_ are exactly
\* the blocks of the arena whose header says free, each of them is linked
\* once, and the list ends (it has no cycle).
C27_FreeListConsistent ==
    /\ Len(FreeList(mem, arena[1])) < MaxWalk
    /\ \A i, j \in 1..Len(FreeList(mem, arena[1])) :
          i # j => FreeList(mem, arena[1])[i] # FreeList(mem, arena[1])[j]
    /\ {FreeList(mem, arena[1])[i] : i \in 1..Len(FreeList(mem, arena[1]))}
         = {Blocks(mem, arena[1])[i] : i \in {k \in 1..Len(Blocks(mem, arena[1])) :
                                                RdBool(mem, Blocks(mem, arena[1])[k] + OffIsFree)}}

\* C27 witness: a deallocate has just merged the freed block into the free
\* block in front of it (its header is no longer the start of a block);
\* both were unlinked and the list now links the merged block alone.
C27_Witness ==
    /\ seen.call.op = "free"
    /\ seen.call.path = "arena"
    /\ \A i \in 1..Len(Blocks(mem, arena[1])) :
          Blocks(mem, arena[1])[i] # seen.call.ptr - HeaderSize
    /\ FreeList(mem, arena[1]) = << arena[1].memory_ >>

ChosenFor(ptr) ==
    {b \in ArenaBlocks : b.free /\ b.start + HeaderSize <= ptr /\ ptr < b.start + b.total}

\* C29: when Arena::allocate serves a request from a free block of T bytes,
\* with needed = overhead + padding + reqSize (the padding being what lies
\* between the end of the header and the pointer returned): if
\* T - needed >= sizeof(FreeBlock) + overhead the block's totalSize becomes
\* needed, and the T - needed bytes behind it become a free block with its
\* own header and footer, linked into the free list, and usedBytes_ grows by
\* needed; otherwise the block keeps its T bytes, no block is created and
\* usedBytes_ grows by T.
C29_SplitRule ==
    [][\A reqSize \in DirectSizes, alignment \in DirectAligns :
          (DirectAllocate(reqSize, alignment) /\ seen'.call.ptr # 0) =>
             /\ ChosenFor(seen'.call.ptr) # {}
             /\ \A b \in ChosenFor(seen'.call.ptr) :
                   LET needed == HeaderSize + FooterSize
                                 + (seen'.call.ptr - (b.start + HeaderSize)) + reqSize
                       rest == b.start + needed
                   IN /\ ~RdBool(mem', b.start + OffIsFree)
                      /\ IF b.total - needed >= FreeBlockSize + HeaderSize + FooterSize
                         THEN /\ RdU64(mem', b.start + OffTotalSize) = needed
                              /\ arena'[1].usedBytes_ = arena[1].usedBytes_ + needed
                              /\ IsMagic(mem', rest)
                              /\ RdU64(mem', rest + OffTotalSize) = b.total - needed
                              /\ RdBool(mem', rest + OffIsFree)
                              /\ IsMagic(mem', rest + b.total - needed - FooterSize)
                              /\ RdU64(mem', rest + b.total - needed - FooterSize
                                              + FootOffTotalSize) = b.total - needed
                              /\ RdBool(mem', rest + b.total - needed - FooterSize
                                               + FootOffIsFree)
                              /\ arena'[1].firstFree_ = rest
                              /\ \E i \in 1..Len(Blocks(mem', arena'[1])) :
                                    Blocks(mem', arena'[1])[i] = rest
                         ELSE /\ RdU64(mem', b.start + OffTotalSize) = b.total
                              /\ arena'[1].usedBytes_ = arena[1].usedBytes_ + b.total
                              /\ Blocks(mem', arena'[1]) = Blocks(mem, arena[1])
      ]_vars

\* C29 witness: the last allocate was given a whole block that is larger
\* than the request needed, the leftover being too small to split off.
C29_Witness ==
    /\ seen.call.op = "allocate"
    /\ seen.call.ptr # 0
    /\ \E b \in BlockOf(seen.call.ptr) :
          /\ b.total > Overhead + (seen.call.ptr - (b.start + HeaderSize)) + seen.call.size
          /\ b.total - (Overhead + (seen.call.ptr - (b.start + HeaderSize)) + seen.call.size)
                >= FreeBlockSize

\* the block at b is large enough for the request and overhead, and the
\* first address of its payload area that is a multiple of the alignment
\* leaves reqSize bytes in front of the footer
Satisfies(m, b, reqSize, alignment) ==
    /\ RdU64(m, b + OffTotalSize) >= reqSize + HeaderSize + FooterSize
    /\ \E pad \in 0..(alignment - 1) :
          /\ (b + HeaderSize + pad) % alignment = 0
          /\ b + HeaderSize + pad + reqSize <= b + RdU64(m, b + OffTotalSize) - FooterSize

\* C30: Arena::allocate returns a pointer into the first block, in the
\* order of the free list from firstFree_, that is large enough for
\* reqSize + overhead and whose aligned payload holds reqSize bytes; it
\* returns nullptr exactly when no block of the list is such a block.
C30_FirstFit ==
    [][\A reqSize \in DirectSizes, alignment \in DirectAligns :
          DirectAllocate(reqSize, alignment) =>
             IF \E i \in 1..Len(FreeList(mem, arena[1])) :
                   Satisfies(mem, FreeList(mem, arena[1])[i], reqSize, alignment)
             THEN \E i \in 1..Len(FreeList(mem, arena[1])) :
                     /\ Satisfies(mem, FreeList(mem, arena[1])[i], reqSize, alignment)
                     /\ \A j \in 1..(i - 1) :
                           ~Satisfies(mem, FreeList(mem, arena[1])[j], reqSize, alignment)
                     /\ seen'.call.ptr >= FreeList(mem, arena[1])[i] + HeaderSize
                     /\ seen'.call.ptr + reqSize
                          <= FreeList(mem, arena[1])[i]
                             + RdU64(mem, FreeList(mem, arena[1])[i] + OffTotalSize) - FooterSize
             ELSE seen'.call.ptr = 0
      ]_vars

\* C30 witness: the last allocate took the last block of the free list (its
\* link, which allocate leaves in place, is null) whole, passing over the
\* blocks that are still on the list, none of which is large enough.
C30_Witness ==
    /\ seen.call.op = "allocate"
    /\ seen.call.ptr # 0
    /\ FreeList(mem, arena[1]) # << >>
    /\ \A i \in 1..Len(FreeList(mem, arena[1])) :
          /\ RdU64(mem, FreeList(mem, arena[1])[i] + OffTotalSize) < seen.call.size + Overhead
          /\ FreeList(mem, arena[1])[i] + RdU64(mem, FreeList(mem, arena[1])[i] + OffTotalSize)
               <= seen.call.ptr - HeaderSize
    /\ \E b \in BlockOf(seen.call.ptr) : RdU64(mem, b.start + OffNext) = 0

\* the threads that are bound, and the arenas that were ever created
BoundThreads == {t \in Threads : tld[t].arena # 0}
CreatedArenas == {a \in ArenaIds : arena[a].state # "none"}

\* C31: every allocate or deallocate call leaves its thread bound; a thread
\* that was not bound is bound by its call to an arena that did not exist
\* before and that no other thread is bound to, its small cache being empty
\* until then; a binding never changes afterwards; a call changes no arena
\* other than its thread's and no other thread's cache; and the arenas ever
\* created are as many as the threads that have made a call.
C31_ThreadBinding ==
    [][/\ \A t \in Threads :
             /\ (\E size \in Sizes : Allocate(t, size)) => t \in BoundThreads'
             /\ (\E l \in live : Deallocate(t, l)) => t \in BoundThreads'
             /\ t \in BoundThreads => tld'[t].arena = tld[t].arena
             /\ (t \notin BoundThreads /\ t \in BoundThreads') =>
                   /\ seen'.call.t = t
                   /\ tld'[t].arena \notin CreatedArenas
                   /\ tld'[t].arena \in CreatedArenas'
                   /\ \A u \in Threads \ {t} : tld'[u].arena # tld'[t].arena
                   /\ \A bin \in 0..(SMALL_BIN_COUNT - 1) : tld[t].freeList_[bin] = 0
             /\ ((\E size \in Sizes : Allocate(t, size)) \/ (\E l \in live : Deallocate(t, l)))
                   => /\ \A a \in ArenaIds \ {tld'[t].arena} : arena'[a] = arena[a]
                      /\ \A u \in Threads \ {t} : tld'[u] = tld[u]
       /\ Cardinality(CreatedArenas') = Cardinality(BoundThreads')
       /\ Len(arenas_') = Cardinality(BoundThreads')
      ]_vars

\* C31 witness: both threads are bound after a single allocate call, so one
\* of them was bound by its first call being a deallocate.
C31_Witness ==
    /\ BoundThreads = Threads
    /\ calls = 1
    /\ seen.call.op = "free"

\* what an arena's mutex protects: firstFree_, usedBytes_, and for every
\* block its header, its footer and, while it is free, its link
ArenaMeta(m, ar) ==
    [firstFree_ |-> ar.firstFree_, usedBytes_ |-> ar.usedBytes_,
     blocks |-> {[start |-> Blocks(m, ar)[i],
                  magic |-> IsMagic(m, Blocks(m, ar)[i]),
                  totalSize |-> RdU64(m, Blocks(m, ar)[i] + OffTotalSize),
                  userSize |-> RdU64(m, Blocks(m, ar)[i] + OffUserSize),
                  isFree |-> RdBool(m, Blocks(m, ar)[i] + OffIsFree),
                  footTotalSize |-> RdU64(m, getFooter(m, Blocks(m, ar)[i]) + FootOffTotalSize),
                  footIsFree |-> RdBool(m, getFooter(m, Blocks(m, ar)[i]) + FootOffIsFree),
                  next |-> IF RdBool(m, Blocks(m, ar)[i] + OffIsFree)
                           THEN RdU64(m, Blocks(m, ar)[i] + OffNext) ELSE 0] :
                    i \in 1..Len(Blocks(m, ar))}]

\* the threads inside Arena::allocate or Arena::deallocate of arena a
Inside(a) == {t \in Threads : pc[t] \in {"locked", "hang"} /\ loc[t].id = a}

\* C32: at most one thread at a time is inside allocate or deallocate of an
\* arena, and it holds the arena's mutex; a step changes an arena's free
\* list, block metadata or usedBytes_ only if it is taken by the thread
\* that holds that arena's mutex; and a mutex is held only by a thread
\* inside its own arena, so that a thread entering an arena in which no
\* thread is can always take the lock, whatever goes on in other arenas.
C32_MutualExclusion ==
    [][\A a \in {1, 2} :
          /\ Cardinality(Inside(a)') <= 1
          /\ \A t \in Inside(a)' : mtx'[a] = t
          /\ mtx'[a] # 0 => mtx'[a] \in Inside(a)'
          /\ ArenaMeta(mem', arena'[a]) # ArenaMeta(mem, arena[a]) =>
                /\ mtx[a] \in Inside(a)
                /\ pc'[mtx[a]] # pc[mtx[a]]
          /\ \A t \in Threads :
                (pc[t] = "idle" /\ Inside(a) = {} /\ calls < MaxSharedCalls)
                   => ENABLED SharedLock(t, a, 24, 0)
      ]_vars

\* C32 witness: one thread is inside an arena in which blocks are allocated
\* while the other thread is inside the other arena.
C32_Witness ==
    /\ Inside(1) # {}
    /\ Inside(2) # {}
    /\ arena[1].usedBytes_ > 0
    /\ arena[2].usedBytes_ > 0

\* C33: allocate(size) with size <= 256 is served by the calling thread's
\* small cache (the head of the bin's list or a new chunk), returns a
\* pointer, and leaves the thread's arena as it was: free list, block
\* metadata and usedBytes_ (an arena created by this very call is left as
\* its constructor made it); allocate(size) with size > 256 is served by the
\* thread's arena (the pointer, if any, lies in one of its blocks, and
\* nullptr is returned otherwise), takes no chunk and leaves every bin of
\* every small cache unchanged.
C33_RoutingFrame ==
    [][\A t \in Threads, size \in RouteSizes :
          Allocate(t, size) =>
             IF size <= SmallLimit
             THEN /\ seen'.call.ptr # 0
                  /\ \/ /\ tld[t].freeList_[findBin(size)] # 0
                        /\ seen'.call.ptr = tld[t].freeList_[findBin(size)] + SmallHeaderSize
                        /\ nchunks' = nchunks
                     \/ /\ tld[t].freeList_[findBin(size)] = 0
                        /\ seen'.call.ptr = ChunkAddr(nchunks) + SmallHeaderSize
                        /\ nchunks' = nchunks + 1
                  /\ ArenaMeta(mem', arena'[tld'[t].arena])
                       = IF tld[t].arena # 0
                         THEN ArenaMeta(mem, arena[tld[t].arena])
                         ELSE ArenaMeta(ArenaCtor(mem, RegionBase(tld'[t].arena),
                                                  DefaultArenaSize).mem,
                                        ArenaCtor(mem, RegionBase(tld'[t].arena),
                                                  DefaultArenaSize).ar)
             ELSE /\ nchunks' = nchunks
                  /\ seen'.call.ptr # 0 =>
                        \E i \in 1..Len(Blocks(mem', arena'[tld'[t].arena])) :
                           /\ Blocks(mem', arena'[tld'[t].arena])[i] + HeaderSize
                                <= seen'.call.ptr
                           /\ seen'.call.ptr + size
                                <= getFooter(mem', Blocks(mem', arena'[tld'[t].arena])[i])
                  /\ \A u \in Threads, bin \in 0..(SMALL_BIN_COUNT - 1) :
                        BinList(mem', tld'[u], bin) = BinList(mem, tld[u], bin)
      ]_vars

\* C33 witness: a request of exactly 256 bytes was served from a chunk while
\* the thread's arena holds an allocated block of a request of 257 bytes and
\* a bin of the thread's cache is not empty.
C33_Witness ==
    /\ seen.call.op = "allocate"
    /\ seen.call.size = SmallLimit
    /\ seen.call.ptr >= ChunkOrigin
    /\ arena[tld[seen.call.t].arena].usedBytes_ > 0
    /\ \E bin \in 0..(SMALL_BIN_COUNT - 1) : tld[seen.call.t].freeList_[bin] # 0

\* C34: for every request size r with 1 <= r <= 256, allocateSmall returns
\* a block of bin i, the smallest index with SMALL_BIN_SIZE[i] >= r (the head
\* of that bin's list or a new chunk counted with that bin's size), and the
\* size_t binIndex of the returned block's header is i; for r > 256 it
\* returns nullptr and changes neither memory, nor a bin list, nor a counter.
C34_BinSelection ==
    [][\A r \in CacheSizes :
          CacheAllocate(r) =>
             IF r <= 256
             THEN \E i \in 0..3 :
                     /\ << 32, 64, 128, 256 >>[i + 1] >= r
                     /\ \A j \in 0..(i - 1) : << 32, 64, 128, 256 >>[j + 1] < r
                     /\ seen'.call.ptr # 0
                     /\ \/ /\ tld[1].freeList_[i] # 0
                           /\ seen'.call.ptr = tld[1].freeList_[i] + SmallHeaderSize
                           /\ stats' = stats
                        \/ /\ tld[1].freeList_[i] = 0
                           /\ seen'.call.ptr = ChunkAddr(nchunks) + SmallHeaderSize
                           /\ stats'.currentUsedBytes
                                = stats.currentUsedBytes + SmallHeaderSize
                                    + << 32, 64, 128, 256 >>[i + 1]
                     /\ RdU64(mem', seen'.call.ptr - SmallHeaderSize) = i
                     /\ \A k \in 3..7 : Rd(mem', seen'.call.ptr - SmallHeaderSize + k) = 0
             ELSE /\ seen'.call.ptr = 0
                  /\ UNCHANGED << mem, tld, stats, nchunks, live >>
      ]_vars

\* the size_t binIndex in the header in front of ptr lies in [0, SMALL_BIN_COUNT)
BinIndexInRange(m, ptr) ==
    /\ Rd(m, ptr - SmallHeaderSize) < SMALL_BIN_COUNT
    /\ \A k \in 1..7 : Rd(m, ptr - SmallHeaderSize + k) = 0

\* C35: freeSmall on a pointer whose header holds a binIndex outside
\* [0, SMALL_BIN_COUNT) returns without changing a statistics counter, a
\* bin's head or a bin's list.
C35_InvalidBinIgnored ==
    [][\A l \in live :
          (CacheFree(l) /\ ~BinIndexInRange(mem, l.ptr)) =>
             /\ stats' = stats
             /\ tld' = tld
             /\ \A bin \in 0..(SMALL_BIN_COUNT - 1) :
                   BinList(mem', tld'[1], bin) = BinList(mem, tld[1], bin)
      ]_vars

\* C36: the mutexes are taken in one order and nobody waits forever. An
\* arena is appended to arenas_ (createArena, under mgrMutex_) only when
\* mgrMutex_ is free and by a thread that holds no arena mutex; the reclaimer
\* takes mgrMutex_ only from wait_for, and an arena's mutex only while it
\* holds mgrMutex_ and the arena's mutex is free; a thread takes an arena's
\* mutex only when it is free; no thread that holds an arena mutex waits for
\* mgrMutex_. As long as the process runs, every arena mutex that is held is
\* released, mgrMutex_ is released, and the reclaimer waiting for an arena's
\* mutex gets it.
C36_DeadlockFreedom ==
    /\ [][/\ Len(arenas_') > Len(arenas_) =>
              /\ mgr.mgrMutex_ = "none"
              /\ \A t \in Threads : pc'[t] # pc[t] => \A a \in ArenaIds : mtx[a] # t
          /\ (mgr'.mgrMutex_ = "bg" /\ mgr.mgrMutex_ # "bg") =>
              /\ mgr.mgrMutex_ = "none"
              /\ bg.pc = "wait"
          /\ (bg.pc = "sweep" /\ bg'.pc # "sweep") =>
              /\ mgr.mgrMutex_ = "bg"
              /\ mtx[arenas_[bg.i]] = 0
          /\ \A a \in ArenaIds :
                (mtx'[a] # mtx[a] /\ mtx'[a] # 0) => mtx[a] = 0
          /\ \A t \in Threads :
                (\E a \in ArenaIds : mtx[a] = t) =>
                   /\ pc[t] \in {"locked", "load_c", "load_p", "cas"}
                   /\ tld[t].arena # 0
         ]_vars
    /\ \A a \in ArenaIds : (mtx[a] # 0) ~> (mtx[a] = 0 \/ ~Running)
    /\ (mgr.mgrMutex_ # "none") ~> (mgr.mgrMutex_ = "none" \/ ~Running)
    /\ (bg.pc = "sweep") ~> (bg.pc # "sweep" \/ ~Running)

\* C36 witness: the reclaimer holds mgrMutex_ and waits for the mutex of an
\* arena that a thread inside Arena::allocate holds, while another thread
\* has no arena yet and would have to wait for mgrMutex_ to create one.
C36_Witness ==
    /\ Running
    /\ bg.pc = "sweep"
    /\ mgr.mgrMutex_ = "bg"
    /\ mtx[arenas_[bg.i]] # 0
    /\ pc[mtx[arenas_[bg.i]]] = "locked"
    /\ \E u \in Threads : tld[u].arena = 0 /\ pc[u] = "idle" /\ ~CanBind(u)

\* C37: when every pointer that allocate returned is freed at most once, no
\* deallocate subtracts more than the counter holds: a call that finds
\* currentUsedBytes and every arena's usedBytes_ not wrapped leaves them not
\* wrapped (a counter below 0 here is a size_t that wrapped modulo 2^64).
C37_NoUnderflow ==
    [][\A t \in Threads, l \in live :
          (/\ Deallocate(t, l)
           /\ stats.currentUsedBytes >= 0
           /\ \A a \in ArenaIds : arena[a].usedBytes_ >= 0)
          => /\ stats'.currentUsedBytes >= 0
             /\ stats'.currentUsedBytes <= stats.currentUsedBytes
             /\ \A a \in ArenaIds : arena'[a].usedBytes_ >= 0
      ]_vars

\* the sum of header.totalSize over the blocks at blocks[i..]
RECURSIVE TotalFrom(_, _, _)
TotalFrom(m, blocks, i) ==
    IF i > Len(blocks) THEN 0
    ELSE RdU64(m, blocks[i] + OffTotalSize) + TotalFrom(m, blocks, i + 1)

\* C38: in every state of the arena the walk from memory_ along
\* header.totalSize visits blocks that start with a header, have a size
\* above 0 and follow one another without gap or overlap, the last one
\* ending at memory_ + arenaSize_; and usedBytes_ plus the totalSize of the
\* blocks linked from firstFree_ is arenaSize_.
C38_ArenaTiling ==
    /\ Len(Blocks(mem, arena[1])) \in 1..(MaxWalk - 1)
    /\ Blocks(mem, arena[1])[1] = arena[1].memory_
    /\ \A i \in 1..Len(Blocks(mem, arena[1])) :
          /\ IsMagic(mem, Blocks(mem, arena[1])[i])
          /\ RdU64(mem, Blocks(mem, arena[1])[i] + OffTotalSize) > 0
          /\ Blocks(mem, arena[1])[i] + RdU64(mem, Blocks(mem, arena[1])[i] + OffTotalSize)
               = IF i < Len(Blocks(mem, arena[1]))
                 THEN Blocks(mem, arena[1])[i + 1]
                 ELSE arena[1].memory_ + arena[1].arenaSize_
    /\ TotalFrom(mem, Blocks(mem, arena[1]), 1) = arena[1].arenaSize_
    /\ Len(FreeList(mem, arena[1])) < MaxWalk
    /\ arena[1].usedBytes_ + TotalFrom(mem, FreeList(mem, arena[1]), 1)
         = arena[1].arenaSize_

\* C38 witness: the region is tiled by four blocks, two of them on the free
\* list with an allocated block between them, after a deallocate that merged
\* nothing.
C38_Witness ==
    /\ seen.call.op = "free"
    /\ seen.call.path = "arena"
    /\ Len(Blocks(mem, arena[1])) = 4
    /\ Len(FreeList(mem, arena[1])) = 2
    /\ \E i \in 2..3 :
          /\ RdBool(mem, Blocks(mem, arena[1])[i - 1] + OffIsFree)
          /\ ~RdBool(mem, Blocks(mem, arena[1])[i] + OffIsFree)
          /\ RdBool(mem, Blocks(mem, arena[1])[i + 1] + OffIsFree)

\* C39: every allocate through an allocator object runs on thread data
\* whose arena is in the arena sequence of that object's manager, that is,
\* an arena created for that object and destroyed only with it.
C39_BindingPerHandle ==
    [][\A h \in Handles, t \in Threads, size \in HandleSizes :
          HandleAllocate(h, t, size) =>
             \E i \in 1..Len(arenas_'[h]) : arenas_'[h][i] = tld'[t].arena
      ]_vars

\* the blocks of the pool in address order, following header.size
RECURSIVE PoolBlocksFrom(_, _, _, _)
PoolBlocksFrom(m, a, end, fuel) ==
    IF a >= end \/ fuel = 0 \/ RdU64(m, a + PoolOffSize) = 0 THEN << >>
    ELSE << a >> \o PoolBlocksFrom(m, a + RdU64(m, a + PoolOffSize), end, fuel - 1)

\* the blocks linked from freeListHead_, following FreeBlock::next
RECURSIVE PoolListFrom(_, _, _)
PoolListFrom(m, blk, fuel) ==
    IF blk = 0 \/ fuel = 0 THEN << >>
    ELSE << blk >> \o PoolListFrom(m, RdU64(m, blk + PoolOffNext), fuel - 1)

\* C40: after any sequence of allocate and deallocate calls on the
\* ThreadsafeCoalescingAllocator the list from freeListHead_ ends (it has no
\* cycle), links no block twice, is in address order and links exactly the
\* blocks of the pool whose header says free; and no call is stuck in a loop
\* that does not end.
C40_PoolListSound ==
    /\ pc[1] # "hang"
    /\ Len(PoolListFrom(mem, arena.freeListHead_, MaxWalk)) < MaxWalk
    /\ \A i, j \in 1..Len(PoolListFrom(mem, arena.freeListHead_, MaxWalk)) :
          i < j => PoolListFrom(mem, arena.freeListHead_, MaxWalk)[i]
                     < PoolListFrom(mem, arena.freeListHead_, MaxWalk)[j]
    /\ {PoolListFrom(mem, arena.freeListHead_, MaxWalk)[i] :
           i \in 1..Len(PoolListFrom(mem, arena.freeListHead_, MaxWalk))}
         = {b \in {PoolBlocksFrom(mem, arena.pool_, arena.pool_ + arena.poolSize_, MaxWalk)[k] :
                     k \in 1..Len(PoolBlocksFrom(mem, arena.pool_,
                                                 arena.pool_ + arena.poolSize_, MaxWalk))} :
               RdBool(mem, b + PoolOffIsFree)}

====
